---- MODULE Spec2Model ----
(***************************************************************************)
(* Model of the richlinker bookmarklet (src/src/bookmarklet/richlinker.js, *)
(* first program of the file, lines 1-526) and of the clipboard gateway    *)
(* (src/src/js-lib/clipboard.js).                                          *)
(*                                                                         *)
(* Text is modelled by real strings.  The inputs the code parses (the      *)
(* address of the page, document.title) are sequences of tokens, so that   *)
(* split / includes / replace are computed on the tokens and the results   *)
(* are joined back into strings.                                           *)
(***************************************************************************)
EXTENDS Integers, Sequences, FiniteSets, TLC

\* ------------------------------------------------------------------ bounds
\* Largest value of the clock (Date.now(), in ms since the page was opened).
MaxTime == 1500

\* ------------------------------------------------------- program constants
\* richlinker.js:112  if (now - data.timestamp > 1000)
ExpiryMs == 1000
\* clipboard.js:42 / :82  setTimeout(resolve, 100)
FocusDelayMs == 100
\* richlinker.js:20  shorty(text, maxLength = 30)
ShortyMax == 30

\* JavaScript null.  No string of the model equals it.
Null == "<<null>>"

\* JavaScript truthiness of a string-or-null value.
Truthy(v) == v # Null /\ v # ""

\* ------------------------------------------------------------ token helpers
RECURSIVE Str(_)
\* Array.prototype.join('') of the tokens: the string they spell.
Str(s) == IF s = <<>> THEN "" ELSE Head(s) \o Str(Tail(s))

\* Is pat a prefix of s (String.prototype.startsWith on tokens).
StartsWith(s, pat) ==
    /\ Len(pat) <= Len(s)
    /\ SubSeq(s, 1, Len(pat)) = pat

\* String.prototype.includes on tokens: pat occurs contiguously in s.
Includes(s, pat) ==
    \E i \in 1..(Len(s) + 1) :
        /\ i + Len(pat) - 1 <= Len(s)
        /\ SubSeq(s, i, i + Len(pat) - 1) = pat

\* String.prototype.indexOf on tokens: first position of pat, 0 when absent
\* (positions are 1-based here, so 0 plays the part of -1).
IndexOf(s, pat) ==
    IF Includes(s, pat)
    THEN CHOOSE i \in 1..(Len(s) + 1) :
            /\ i + Len(pat) - 1 <= Len(s)
            /\ SubSeq(s, i, i + Len(pat) - 1) = pat
            /\ \A j \in 1..(i - 1) : SubSeq(s, j, j + Len(pat) - 1) # pat
    ELSE 0

RECURSIVE SplitOn(_, _)
\* String.prototype.split(sep) for a separator that is one token: the
\* sequence of the pieces (each a token sequence) between the separators.
SplitOn(s, sep) ==
    IF ~ (\E i \in 1..Len(s) : s[i] = sep)
    THEN << s >>
    ELSE LET i == CHOOSE k \in 1..Len(s) :
                     s[k] = sep /\ \A j \in 1..(k - 1) : s[j] # sep
         IN  << SubSeq(s, 1, i - 1) >> \o SplitOn(SubSeq(s, i + 1, Len(s)), sep)

RECURSIVE JoinWith(_, _)
\* Array.prototype.join(sep) of pieces that are token sequences.
JoinWith(parts, sep) ==
    IF parts = <<>> THEN <<>>
    ELSE IF Len(parts) = 1 THEN parts[1]
    ELSE parts[1] \o << sep >> \o JoinWith(Tail(parts), sep)

\* String.prototype.replace(tok, ''): the first occurrence of tok removed.
RemoveFirst(s, tok) ==
    IF ~ (\E i \in 1..Len(s) : s[i] = tok)
    THEN s
    ELSE LET i == CHOOSE k \in 1..Len(s) :
                     s[k] = tok /\ \A j \in 1..(k - 1) : s[j] # tok
         IN  SubSeq(s, 1, i - 1) \o SubSeq(s, i + 1, Len(s))


\* ------------------------------------------------------------- WebpageInfo
\* new richlinker.WebpageInfo({titleText, titleUrl, headerText = null,
\* headerUrl = null, style = "normal"})
WebpageInfo(titleText, titleUrl, headerText, headerUrl, style) ==
    [titleText |-> titleText, titleUrl |-> titleUrl,
     headerText |-> headerText, headerUrl |-> headerUrl, style |-> style]

\* The value of a variable that holds no WebpageInfo (yet).
NoInfo == [none |-> TRUE]

\* shorty(text, maxLength = 30)
shorty(text, maxLength) ==
    IF ~ Truthy(text) THEN ""
    ELSE IF Len(text) > maxLength
         THEN SubSeq(text, 1, maxLength - 3) \o "..."
         ELSE text

\* WebpageInfo.preview(includeHeader): the lines of the preview.
preview(info, includeHeader) ==
    LET title == IF Truthy(info.titleText) THEN info.titleText ELSE "Untitled"
        lines == << "* title: " \o shorty(title, ShortyMax) >>
    IN  IF includeHeader /\ Truthy(info.headerText)
        THEN lines \o << "* header: " \o shorty(info.headerText, ShortyMax) >>
        ELSE lines

\* isSameAs that compares the style as well.
isSameAs_WithStyle(this, other) ==
    /\ this.titleText = other.titleText
    /\ this.titleUrl = other.titleUrl
    /\ this.headerText = other.headerText
    /\ this.headerUrl = other.headerUrl
    /\ this.style = other.style

\* WebpageInfo.isSameAs(other): the four value fields, not the style.
isSameAs(this, other) ==
    /\ this.titleText = other.titleText
    /\ this.titleUrl = other.titleUrl
    /\ this.headerText = other.headerText
    /\ this.headerUrl = other.headerUrl

\* NormalLink with the flag inverted, as the "spinnaker" case has it.
NormalLink_HeaderFirst(info, includeHeader) ==
    LET useHeader == ~ includeHeader
    IN  [linkText |-> IF useHeader /\ Truthy(info.headerText)
                      THEN info.titleText \o " #" \o info.headerText
                      ELSE info.titleText,
         linkUrl  |-> IF useHeader /\ Truthy(info.headerUrl)
                      THEN info.headerUrl
                      ELSE info.titleUrl]

\* NormalLink that keeps the title's address whatever the flag.
NormalLink_TitleUrl(info, includeHeader) ==
    LET useHeader == includeHeader
    IN  [linkText |-> IF useHeader /\ Truthy(info.headerText)
                      THEN info.titleText \o " #" \o info.headerText
                      ELSE info.titleText,
         linkUrl  |-> info.titleUrl]

\* The "normal" case (and the default case) of getLinkTextAndUrl.
NormalLink(info, includeHeader) ==
    LET useHeader == includeHeader
    IN  [linkText |-> IF useHeader /\ Truthy(info.headerText)
                      THEN info.titleText \o " #" \o info.headerText
                      ELSE info.titleText,
         linkUrl  |-> IF useHeader /\ Truthy(info.headerUrl)
                      THEN info.headerUrl
                      ELSE info.titleUrl]

\* SpinnakerLink without the inversion of the flag.
SpinnakerLink_NotInverted(info, includeHeader) ==
    LET useHeader == includeHeader
    IN  IF useHeader /\ Truthy(info.headerText)
        THEN [linkText |-> "spinnaker: " \o info.headerText,
              linkUrl  |-> info.headerUrl]
        ELSE [linkText |-> info.titleText, linkUrl |-> info.titleUrl]

\* SpinnakerLink that takes the header's address without a header text, as
\* the "normal" case does.
SpinnakerLink_UrlAlone(info, includeHeader) ==
    LET useHeader == ~ includeHeader
    IN  IF useHeader /\ Truthy(info.headerText)
        THEN [linkText |-> "spinnaker: " \o info.headerText,
              linkUrl  |-> info.headerUrl]
        ELSE [linkText |-> info.titleText,
              linkUrl  |-> IF useHeader /\ Truthy(info.headerUrl)
                           THEN info.headerUrl ELSE info.titleUrl]

\* The "spinnaker" case of getLinkTextAndUrl: the flag is inverted.
SpinnakerLink(info, includeHeader) ==
    LET useHeader == ~ includeHeader
    IN  IF useHeader /\ Truthy(info.headerText)
        THEN [linkText |-> "spinnaker: " \o info.headerText,
              linkUrl  |-> info.headerUrl]
        ELSE [linkText |-> info.titleText, linkUrl |-> info.titleUrl]

\* getLinkTextAndUrl whose every style takes the "normal" case.
getLinkTextAndUrl_AllNormal(info, includeHeader) ==
    NormalLink(info, includeHeader)

\* WebpageInfo.getLinkTextAndUrl(includeHeader)
getLinkTextAndUrl(info, includeHeader) ==
    IF info.style = "spinnaker"
    THEN SpinnakerLink(info, includeHeader)
    ELSE NormalLink(info, includeHeader)

\* toClipboard: const html = `<a href="${linkUrl}">${linkText}</a>`
HtmlOf(link) ==
    "<a href=\"" \o link.linkUrl \o "\">" \o link.linkText \o "</a>"

\* TextOf that leaves the address out.
TextOf_LabelOnly(link) ==
    link.linkText

\* toClipboard: const text = `${linkText} (${linkUrl})`
TextOf(link) ==
    link.linkText \o " (" \o link.linkUrl \o ")"

\* ------------------------------------------------------- Activation cache
\* The slot 'richlinker-last-copy' of localStorage: absent, a record the
\* program stored, or a string JSON.parse (or the constructor) rejects.
NoItem == [kind |-> "none"]
Garbage == [kind |-> "garbage"]

\* cache(): JSON.stringify of {timestamp, webpageInfo: {four fields}}.  The
\* style is not among the fields written.
CacheRecord(info, t) ==
    [kind |-> "rec", timestamp |-> t,
     webpageInfo |-> [titleText |-> info.titleText, titleUrl |-> info.titleUrl,
                      headerText |-> info.headerText, headerUrl |-> info.headerUrl]]

\* IsExpired that never expires a record.
IsExpired_Never(t, timestamp) ==
    FALSE

\* getCached, line 112: the record is expired.
IsExpired(t, timestamp) ==
    t - timestamp > ExpiryMs

\* getCached that returns null for an expired record but leaves it stored.
getCached_KeepsExpired(item, t, getThrows, removeThrows) ==
    IF getThrows \/ item = Garbage
    THEN IF removeThrows
         THEN [cached |-> NoInfo, item |-> item, threw |-> TRUE]
         ELSE [cached |-> NoInfo, item |-> NoItem, threw |-> FALSE]
    ELSE IF item = NoItem \/ IsExpired(t, item.timestamp)
    THEN [cached |-> NoInfo, item |-> item, threw |-> FALSE]
    ELSE [cached |-> WebpageInfo(item.webpageInfo.titleText,
                                 item.webpageInfo.titleUrl,
                                 item.webpageInfo.headerText,
                                 item.webpageInfo.headerUrl, "normal"),
          item |-> item, threw |-> FALSE]

\* getCached(): the outcome of one call at time t on slot content item.
\* getThrows / removeThrows say whether localStorage.getItem and
\* localStorage.removeItem throw (storage denied to the page).
\*   cached : the WebpageInfo returned, or NoInfo for null
\*   item   : the slot afterwards
\*   threw  : the call threw (removeItem threw inside the catch block)
getCached(item, t, getThrows, removeThrows) ==
    IF getThrows
    THEN \* catch (error) { localStorage.removeItem(...); return null; }
         IF removeThrows
         THEN [cached |-> NoInfo, item |-> item, threw |-> TRUE]
         ELSE [cached |-> NoInfo, item |-> NoItem, threw |-> FALSE]
    ELSE IF item = NoItem
    THEN [cached |-> NoInfo, item |-> item, threw |-> FALSE]
    ELSE IF item = Garbage
    THEN \* JSON.parse throws: the catch block
         IF removeThrows
         THEN [cached |-> NoInfo, item |-> item, threw |-> TRUE]
         ELSE [cached |-> NoInfo, item |-> NoItem, threw |-> FALSE]
    ELSE IF IsExpired(t, item.timestamp)
    THEN \* removeItem inside the try block: a throw lands in the catch
         \* block, whose removeItem throws again
         IF removeThrows
         THEN [cached |-> NoInfo, item |-> item, threw |-> TRUE]
         ELSE [cached |-> NoInfo, item |-> NoItem, threw |-> FALSE]
    ELSE [cached |-> WebpageInfo(item.webpageInfo.titleText,
                                 item.webpageInfo.titleUrl,
                                 item.webpageInfo.headerText,
                                 item.webpageInfo.headerUrl, "normal"),
          item |-> item, threw |-> FALSE]

\* cache() that leaves a record already in the slot alone.
cache_KeepsOlder(info, item, t, setThrows) ==
    IF setThrows \/ item.kind = "rec" THEN item ELSE CacheRecord(info, t)

\* cache() whose setItem never fails.
cache_StoresAnyway(info, item, t, setThrows) ==
    CacheRecord(info, t)

\* cache(): the slot after the call; a throwing setItem is swallowed.
cache(info, item, t, setThrows) ==
    IF setThrows THEN item ELSE CacheRecord(info, t)

\* IncludeHeader without the comparison: any fresh record counts.
IncludeHeader_AnyCached(info, cached) ==
    cached # NoInfo

\* toClipboard: const includeHeader = cached && this.isSameAs(cached)
IncludeHeader(info, cached) ==
    cached # NoInfo /\ isSameAs(info, cached)


\* ---------------------------------------------------------------- handlers
\* A page is what one activation reads: window.location.href and
\* document.title as tokens, and the parts of the DOM the handlers query.
\*   outline  : the Google Docs navigation outline (getCurrentHeading)
\*   heading  : textContent of .heading-size-default / .gh-header-title,
\*              Null when the element is absent
\*   pipeline : the Spinnaker execution DOM (extractPipelineName)

\* GoogleDocsHandler.canHandle
GoogleDocsCanHandle(url) ==
    Includes(url, << "docs.google.com", "/", "document", "/", "d", "/" >>)

\* The ' level N' suffixes / level \d+$/ matches.
LevelSuffix == { " level 1", " level 2", " level 3" }

\* GoogleDocsHandler.getCurrentHeading on the outline o (o.throws: a DOM
\* query throws, decided by the caller).
getCurrentHeading(o) ==
    IF ~ o.item THEN Null
    ELSE IF o.content /\ Truthy(o.tooltip) THEN o.tooltip
    ELSE IF o.content /\ Truthy(o.text) THEN o.text
    ELSE IF o.container /\ o.aria # <<>>
         THEN IF o.aria[Len(o.aria)] \in LevelSuffix
              THEN Str(SubSeq(o.aria, 1, Len(o.aria) - 1))
              ELSE Str(o.aria)
    ELSE Null

\* The result of an extractInfo call: a WebpageInfo, or a throw.
Threw == [threw |-> TRUE]

\* GoogleDocsHandler.extractInfo.  When getCurrentHeading throws, the catch
\* block assigns to the const headerUrl, which throws a TypeError out of
\* extractInfo.
GoogleDocsExtract(page) ==
    LET stripped  == Str(RemoveFirst(page.title, " - Google Docs"))
        titleText == IF Truthy(stripped) THEN stripped ELSE "Untitled Document"
        titleUrl  == Str(SplitOn(page.href, "#")[1])
        headerUrl == Str(page.href)
    IN  IF page.outline.throws
        THEN Threw
        ELSE WebpageInfo(titleText, titleUrl,
                         getCurrentHeading(page.outline), headerUrl, "normal")

\* AtlassianHandler.canHandle
AtlassianCanHandle(url) ==
    Includes(url, << ".atlassian.net", "/", "wiki", "/", "spaces", "/" >>)

\* AtlassianHandler.extractInfo
AtlassianExtract(page) ==
    LET rawTitle   == IF Truthy(Str(page.title)) THEN page.title
                      ELSE << "Atlassian Wiki Page" >>
        titleParts == SplitOn(rawTitle, " - ")
        titleText  == IF Len(titleParts) > 2
                      THEN JoinWith(SubSeq(titleParts, 1, Len(titleParts) - 2), " - ")
                      ELSE rawTitle
    IN  WebpageInfo(Str(titleText), Str(page.href), Null, Null, "normal")

\* AirtableHandler.canHandle: the allowlisted url prefixes.
AirtableApplications ==
    { << "https:", "/", "/", "airtable.com", "/", "apptivTqaoebkrmV1", "/",
         "pagYS8GHSAS9swLLI" >>,
      << "https:", "/", "/", "airtable.com", "/", "appWh5G6JXbHDKC2b", "/",
         "paguOM7Eb387ZUnRE" >> }

AirtableCanHandle(url) ==
    \E app \in AirtableApplications : StartsWith(url, app)

\* AirtableHandler.extractInfo: titleElement.textContent throws a TypeError
\* when the element is absent.
AirtableExtract(page) ==
    IF page.heading = Null
    THEN Threw
    ELSE WebpageInfo(page.heading, Str(page.href), Null, Null, "normal")

\* /^\d+$/ on the strings of the model.
IsNumber(str) == str \in { "7", "42" }

\* GitHubHandler.canHandle
GitHubCanHandle(url) ==
    LET parts == SplitOn(url, "/")
    IN  /\ Includes(url, << "github.com", "/" >>)
        /\ Len(parts) >= 7
        /\ Str(parts[3]) = "github.com"
        /\ Truthy(Str(parts[4]))
        /\ Truthy(Str(parts[5]))
        /\ Str(parts[6]) = "pull"
        /\ Truthy(Str(parts[7]))
        /\ IsNumber(Str(parts[7]))

\* GitHubHandler.extractInfo: querySelector(...).textContent throws when the
\* element is absent.
GitHubExtract(page) ==
    IF page.heading = Null
    THEN Threw
    ELSE WebpageInfo(page.heading, Str(page.href), Null, Null, "normal")

\* The first piece of String.prototype.split(pat) for a separator of
\* several tokens.
BeforePattern(s, pat) ==
    IF Includes(s, pat) THEN SubSeq(s, 1, IndexOf(s, pat) - 1) ELSE s

\* SpinnakerHandler.parseSpinnakerUrl: NoParse for null.
NoParse == [parsed |-> FALSE]

parseSpinnakerUrl(url) ==
    LET hashIndex == IndexOf(url, << "#", "/" >>)
        pathPart  == SubSeq(url, hashIndex + 2, Len(url))
        parts     == SplitOn(pathPart, "/")
    IN  IF ~ Includes(url, << "spinnaker.k8s." >>) \/ ~ Includes(url, << ".cloud" >>)
        THEN NoParse
        ELSE IF hashIndex = 0 THEN NoParse
        ELSE IF Len(parts) < 3 THEN NoParse
        ELSE IF Str(parts[1]) # "applications" THEN NoParse
        ELSE IF Str(parts[3]) # "executions" THEN NoParse
        ELSE IF ~ Truthy(Str(parts[2])) THEN NoParse
        ELSE [parsed |-> TRUE,
              applicationName |-> Str(parts[2]),
              executionId |-> IF Len(parts) >= 4 /\ Truthy(Str(parts[4]))
                              THEN Str(SplitOn(parts[4], "?")[1])
                              ELSE Null]

\* SpinnakerHandler.canHandle
SpinnakerCanHandle(url) ==
    parseSpinnakerUrl(url) # NoParse

\* SpinnakerHandler.extractPipelineName on the execution DOM d: the div
\* execution-<id>, its closest .execution-group, the h4 title in it.
extractPipelineName(d, executionId) ==
    IF d.throws THEN Null
    ELSE IF d.executionDivId # executionId THEN Null
    ELSE IF ~ d.group THEN Null
    ELSE IF d.h4 = Null THEN Null
    ELSE d.h4

\* SpinnakerHandler.extractInfo
SpinnakerExtract(page) ==
    LET parsed == parseSpinnakerUrl(page.href)
    IN  IF parsed = NoParse
        THEN Threw
        ELSE IF ~ Truthy(parsed.executionId)
        THEN WebpageInfo(parsed.applicationName,
                         Str(SplitOn(page.href, "?")[1]), Null, Null, "normal")
        ELSE WebpageInfo(parsed.applicationName,
                         Str(BeforePattern(page.href, << "/", "executions" >>))
                             \o "/executions",
                         extractPipelineName(page.pipeline, parsed.executionId),
                         Str(page.href), "spinnaker")

\* const handlers = [...]: the registry, in registration order.
handlers == << "GoogleDocsHandler", "AtlassianHandler", "AirtableHandler",
               "GitHubHandler", "SpinnakerHandler" >>

canHandle(h, url) ==
    CASE h = "GoogleDocsHandler" -> GoogleDocsCanHandle(url)
      [] h = "AtlassianHandler"  -> AtlassianCanHandle(url)
      [] h = "AirtableHandler"   -> AirtableCanHandle(url)
      [] h = "GitHubHandler"     -> GitHubCanHandle(url)
      [] h = "SpinnakerHandler"  -> SpinnakerCanHandle(url)

extractInfo(h, page) ==
    CASE h = "GoogleDocsHandler" -> GoogleDocsExtract(page)
      [] h = "AtlassianHandler"  -> AtlassianExtract(page)
      [] h = "AirtableHandler"   -> AirtableExtract(page)
      [] h = "GitHubHandler"     -> GitHubExtract(page)
      [] h = "SpinnakerHandler"  -> SpinnakerExtract(page)

\* No handler: the result of handlers.find when none matches (undefined).
NoHandler == "undefined"

\* FindHandler falling back to the last handler registered.
FindHandler_Fallback(url) ==
    IF \E i \in 1..Len(handlers) : canHandle(handlers[i], url)
    THEN handlers[CHOOSE i \in 1..Len(handlers) :
                     /\ canHandle(handlers[i], url)
                     /\ \A j \in 1..(i - 1) : ~ canHandle(handlers[j], url)]
    ELSE handlers[Len(handlers)]

\* FindHandler that keeps the last handler that matches.
FindHandler_Last(url) ==
    IF \E i \in 1..Len(handlers) : canHandle(handlers[i], url)
    THEN handlers[CHOOSE i \in 1..Len(handlers) :
                     /\ canHandle(handlers[i], url)
                     /\ \A j \in (i + 1)..Len(handlers) : ~ canHandle(handlers[j], url)]
    ELSE NoHandler

\* execute: handlers.find(h => h.canHandle(currentUrl))
FindHandler(url) ==
    IF \E i \in 1..Len(handlers) : canHandle(handlers[i], url)
    THEN handlers[CHOOSE i \in 1..Len(handlers) :
                     /\ canHandle(handlers[i], url)
                     /\ \A j \in 1..(i - 1) : ~ canHandle(handlers[j], url)]
    ELSE NoHandler


\* -------------------------------------------------------- Clipboard.write
\* The platform capabilities Clipboard.write tests before using them:
\* navigator.clipboard, navigator.clipboard.write, window.ClipboardItem,
\* navigator.clipboard.writeText.
Caps(clipboard, write, item, writeText) ==
    [clipboard |-> clipboard, write |-> write, ClipboardItem |-> item,
     writeText |-> writeText]

\* How one platform call settles: fulfilled, rejected with an error whose
\* message includes 'Document is not focused', rejected with another error.
Settlements == { "ok", "focus", "other" }

\* The state of one Clipboard.write call.
\*   stage   : the platform call awaited ("rich", "richRetry", "plain",
\*             "plainRetry"), or "returned"
\*   result  : the value returned (read when stage = "returned")
\*   calls   : the platform calls made so far and how each settled, with the
\*             focus-recovery steps (window.focus and the 100 ms wait)
\*   written : what the system clipboard received from this call
\*   waited  : the time spent in setTimeout
NotWritten == [kind |-> "none"]

WriteState(stage, result, calls, written, waited) ==
    [stage |-> stage, result |-> result, calls |-> calls,
     written |-> written, waited |-> waited]

\* Before any call of Clipboard.write.
NoWrite == WriteState("none", FALSE, <<>>, NotWritten, 0)

Called(op, res) == [op |-> op, res |-> res]

\* PlainEntry that gives up without the plain-text write.
PlainEntry_GivesUp(w, caps) ==
    [w EXCEPT !.stage = "returned", !.result = FALSE]

\* Lines 67-97: the entry of the plain-text fallback.
PlainEntry(w, caps) ==
    IF caps.writeText
    THEN [w EXCEPT !.stage = "plain"]
    ELSE [w EXCEPT !.stage = "returned", !.result = FALSE]

\* WriteStart without the capability tests.
WriteStart_Unchecked(caps, html, text) ==
    IF Truthy(html) /\ Truthy(text)
    THEN [NoWrite EXCEPT !.stage = "rich"]
    ELSE [NoWrite EXCEPT !.stage = "plain"]

\* Lines 12-33: Clipboard.write up to its first await.
WriteStart(caps, html, text) ==
    IF ~ caps.clipboard
    THEN [NoWrite EXCEPT !.stage = "returned", !.result = FALSE]
    ELSE IF Truthy(html) /\ Truthy(text) /\ caps.write /\ caps.ClipboardItem
    THEN [NoWrite EXCEPT !.stage = "rich"]
    ELSE PlainEntry(NoWrite, caps)

\* AfterRich that recovers the focus after any failure.
AfterRich_AlwaysRecovers(w, res, caps, html, text) ==
    LET c == [w EXCEPT !.calls = Append(@, Called("write", res))]
    IN  IF res = "ok"
        THEN [c EXCEPT !.stage = "returned", !.result = TRUE,
                       !.written = [kind |-> "rich", html |-> html, text |-> text]]
        ELSE [c EXCEPT !.stage = "richRetry",
                       !.calls = Append(@, Called("focus", "ok")),
                       !.waited = @ + FocusDelayMs]

\* Lines 31-57: the first navigator.clipboard.write settles.
AfterRich(w, res, caps, html, text) ==
    LET c == [w EXCEPT !.calls = Append(@, Called("write", res))]
    IN  IF res = "ok"
        THEN [c EXCEPT !.stage = "returned", !.result = TRUE,
                       !.written = [kind |-> "rich", html |-> html, text |-> text]]
        ELSE IF res = "focus"
        THEN [c EXCEPT !.stage = "richRetry",
                       !.calls = Append(@, Called("focus", "ok")),
                       !.waited = @ + FocusDelayMs]
        ELSE PlainEntry(c, caps)

\* AfterRichRetry without the return after the successful retry.
AfterRichRetry_FallsThrough(w, res, caps, html, text) ==
    LET c == [w EXCEPT !.calls = Append(@, Called("write", res))]
    IN  IF res = "ok"
        THEN PlainEntry([c EXCEPT !.written =
                            [kind |-> "rich", html |-> html, text |-> text]], caps)
        ELSE PlainEntry(c, caps)

\* Lines 49-54: the retried navigator.clipboard.write settles.
AfterRichRetry(w, res, caps, html, text) ==
    LET c == [w EXCEPT !.calls = Append(@, Called("write", res))]
    IN  IF res = "ok"
        THEN [c EXCEPT !.stage = "returned", !.result = TRUE,
                       !.written = [kind |-> "rich", html |-> html, text |-> text]]
        ELSE PlainEntry(c, caps)

\* navigator.clipboard.writeText(text || html)
PlainArg(html, text) == IF Truthy(text) THEN text ELSE html

\* Lines 71-93: the first navigator.clipboard.writeText settles.
AfterPlain(w, res, caps, html, text) ==
    LET c == [w EXCEPT !.calls = Append(@, Called("writeText", res))]
    IN  IF res = "ok"
        THEN [c EXCEPT !.stage = "returned", !.result = TRUE,
                       !.written = [kind |-> "plain", text |-> PlainArg(html, text)]]
        ELSE IF res = "focus"
        THEN [c EXCEPT !.stage = "plainRetry",
                       !.calls = Append(@, Called("focus", "ok")),
                       !.waited = @ + FocusDelayMs]
        ELSE [c EXCEPT !.stage = "returned", !.result = FALSE]

\* AfterPlainRetry that recovers the focus again on a focus error.
AfterPlainRetry_Again(w, res, caps, html, text) ==
    LET c == [w EXCEPT !.calls = Append(@, Called("writeText", res))]
    IN  IF res = "ok"
        THEN [c EXCEPT !.stage = "returned", !.result = TRUE,
                       !.written = [kind |-> "plain", text |-> PlainArg(html, text)]]
        ELSE IF res = "focus"
        THEN [c EXCEPT !.stage = "plainRetry",
                       !.calls = Append(@, Called("focus", "ok")),
                       !.waited = @ + FocusDelayMs]
        ELSE [c EXCEPT !.stage = "returned", !.result = FALSE]

\* Lines 84-90: the retried navigator.clipboard.writeText settles.
AfterPlainRetry(w, res, caps, html, text) ==
    LET c == [w EXCEPT !.calls = Append(@, Called("writeText", res))]
    IN  IF res = "ok"
        THEN [c EXCEPT !.stage = "returned", !.result = TRUE,
                       !.written = [kind |-> "plain", text |-> PlainArg(html, text)]]
        ELSE [c EXCEPT !.stage = "returned", !.result = FALSE]

\* One awaited platform call of Clipboard.write settles with res.
Settle(w, res, caps, html, text) ==
    CASE w.stage = "rich"       -> AfterRich(w, res, caps, html, text)
      [] w.stage = "richRetry"  -> AfterRichRetry(w, res, caps, html, text)
      [] w.stage = "plain"      -> AfterPlain(w, res, caps, html, text)
      [] w.stage = "plainRetry" -> AfterPlainRetry(w, res, caps, html, text)

RECURSIVE Settled(_, _, _, _, _)
\* Clipboard.write from state w when its platform calls settle as the
\* sequence rs says, one after the other.
Settled(w, rs, caps, html, text) ==
    IF rs = <<>> \/ w.stage = "returned"
    THEN w
    ELSE Settled(Settle(w, Head(rs), caps, html, text), Tail(rs), caps, html, text)

\* The longest run of platform calls one Clipboard.write can await.
MaxCalls == 4

\* Clipboard.write(content) as a whole, its platform calls settling as rs.
ClipboardWrite(caps, html, text, rs) ==
    Settled(WriteStart(caps, html, text), rs, caps, html, text)


\* ------------------------------------------------------------------- pages
\* The pages an activation is run on.
NoOutline ==
    [item |-> FALSE, content |-> FALSE, tooltip |-> Null, text |-> Null,
     container |-> FALSE, aria |-> <<>>, throws |-> FALSE]

NoPipeline ==
    [executionDivId |-> Null, group |-> FALSE, h4 |-> Null, throws |-> FALSE]

Page(href, title, outline, heading, pipeline) ==
    [href |-> href, title |-> title, outline |-> outline, heading |-> heading,
     pipeline |-> pipeline]

DocUrl ==
    << "https:", "/", "/", "docs.google.com", "/", "document", "/", "d", "/",
       "abc", "/", "edit" >>

\* A document whose outline highlights the heading "Budget" (tooltip).
DocHeading ==
    Page(DocUrl \o << "#", "heading=h.1" >>, << "Plan", " - Google Docs" >>,
         [NoOutline EXCEPT !.item = TRUE, !.content = TRUE, !.container = TRUE,
                           !.tooltip = "Budget", !.text = "Budget",
                           !.aria = << "Budget", " level 1" >>],
         Null, NoPipeline)

\* The same address with no highlighted outline entry.
DocNoHeading ==
    Page(DocUrl \o << "#", "heading=h.1" >>, << "Plan", " - Google Docs" >>,
         NoOutline, Null, NoPipeline)

\* A document whose highlighted entry offers its text by aria-label only.
DocAria ==
    Page(DocUrl, << "Notes", " - Google Docs" >>,
         [NoOutline EXCEPT !.item = TRUE, !.container = TRUE,
                           !.aria = << "Team rituals", " level 2" >>],
         Null, NoPipeline)

\* A document whose outline query throws.
DocThrows ==
    Page(DocUrl, << "Plan", " - Google Docs" >>,
         [NoOutline EXCEPT !.throws = TRUE], Null, NoPipeline)

WikiPage ==
    Page(<< "https:", "/", "/", "acme", ".atlassian.net", "/", "wiki", "/",
            "spaces", "/", "ENG", "/", "pages", "/", "7" >>,
         << "Run", " - ", "book", " - ", "ENG", " - ", "Confluence" >>,
         NoOutline, Null, NoPipeline)

AirtableUrl ==
    << "https:", "/", "/", "airtable.com", "/", "apptivTqaoebkrmV1", "/",
       "pagYS8GHSAS9swLLI", "/", "rec1" >>

AirtablePage ==
    Page(AirtableUrl, << "Airtable" >>, NoOutline, "Fix login", NoPipeline)

\* The record page before .heading-size-default is rendered.
AirtableNoTitle ==
    Page(AirtableUrl, << "Airtable" >>, NoOutline, Null, NoPipeline)

PullUrl ==
    << "https:", "/", "/", "github.com", "/", "acme", "/", "tools", "/",
       "pull", "/", "42" >>

PullPage ==
    Page(PullUrl, << "Add cache" >>, NoOutline, "Add cache #42", NoPipeline)

\* A pull request page without .gh-header-title.
PullNoTitle ==
    Page(PullUrl, << "Add cache" >>, NoOutline, Null, NoPipeline)

SpinnakerUrl ==
    << "https:", "/", "/", "spinnaker.k8s.", "alpha", ".cloud", "/", "#", "/",
       "applications", "/", "provisioner", "/", "executions" >>

SpinnakerList ==
    Page(SpinnakerUrl \o << "?", "q=1" >>, << "Spinnaker" >>, NoOutline, Null,
         NoPipeline)

SpinnakerExecution ==
    Page(SpinnakerUrl \o << "/", "01KC", "?", "stage=0" >>, << "Spinnaker" >>,
         NoOutline, Null,
         [executionDivId |-> "01KC", group |-> TRUE, h4 |-> "Deploy ALPHA",
          throws |-> FALSE])

\* An execution page whose execution div is not in the DOM.
SpinnakerNoName ==
    Page(SpinnakerUrl \o << "/", "01KC", "?", "stage=0" >>, << "Spinnaker" >>,
         NoOutline, Null, NoPipeline)

\* A page of no supported site.
OtherPage ==
    Page(<< "https:", "/", "/", "example.com", "/", "about" >>, << "About" >>,
         NoOutline, Null, NoPipeline)

Pages ==
    { DocHeading, DocNoHeading, DocAria, DocThrows, WikiPage, AirtablePage,
      AirtableNoTitle, PullPage, PullNoTitle, SpinnakerList,
      SpinnakerExecution, SpinnakerNoName, OtherPage }

\* The pages the activations of the orchestrator runs visit: one of each
\* kind of outcome (heading found at an address with and without a fragment,
\* no heading, no header fields, inverted style with and without a pipeline
\* name, a throwing extraction, no handler).
Visited ==
    { DocHeading, DocNoHeading, DocAria, PullPage, SpinnakerExecution,
      SpinnakerNoName, AirtableNoTitle, OtherPage }

\* The environments Clipboard.write runs in: the full Clipboard API, no
\* ClipboardItem (plain text only), write without writeText, and no
\* navigator.clipboard at all.
Platforms ==
    { Caps(TRUE, TRUE, TRUE, TRUE), Caps(TRUE, FALSE, FALSE, TRUE),
      Caps(TRUE, TRUE, TRUE, FALSE), Caps(FALSE, FALSE, FALSE, FALSE) }

\* The time that passes between two activations.
Pauses == { 400, 600, 1001 }


\* ------------------------------------------------------------------- state
VARIABLES
    now,            \* Date.now()
    item,           \* localStorage['richlinker-last-copy']
    prev,           \* history: the last activation that ended SUCCEEDED,
                    \* whether cache() stored its record, and when the
                    \* chain of repeats it belongs to began
    pc,             \* where the activation (execute) stands
    page,           \* the page the activation runs on
    handler,        \* execute: const handler
    info,           \* execute: const webpageInfo
    item0,          \* history: the slot when the activation started
    readAt,         \* history: the time of the activation's getCached call
    getThrew,       \* history: localStorage.getItem threw in that call
    cached,         \* toClipboard: const cached
    includeHeader,  \* toClipboard: const includeHeader
    link,           \* toClipboard: const {linkText, linkUrl}
    payload,        \* toClipboard: const html, const text
    caps,           \* the platform Clipboard.write runs on
    cw,             \* the Clipboard.write call
    notes,          \* the SUCCESS / ERROR notifications of the activation
    outcome,        \* how the activation ended
    other,          \* a second activation, awaiting its Clipboard.write
    gdocs,          \* gdocs-slack.js: the activation and the system clipboard
    autoscroll      \* github-autoscroll.js: the document it is run in

\* The variables of richlinker.js.
richlinkerVars ==
    << now, item, prev, pc, page, handler, info, item0, readAt, getThrew, cached,
       includeHeader, link, payload, caps, cw, notes, outcome, other >>

vars ==
    << now, item, prev, pc, page, handler, info, item0, readAt, getThrew, cached,
       includeHeader, link, payload, caps, cw, notes, outcome, other, gdocs,
       autoscroll >>

NoPage == [none |-> TRUE]
NoLink == [none |-> TRUE]
NoPayload == [none |-> TRUE]
NoCaps == [none |-> TRUE]
NoPrev == [none |-> TRUE]

\* No other activation is under way.
NoOther == [none |-> TRUE]

\* gdocs-slack.js before its first activation: nothing on the system
\* clipboard.
\*   pc        : "idle", "copying" (isDuplicate has returned), "done"
\*   clipboard : the system clipboard
\*   clip0     : history: the clipboard when the activation started
\*   answer    : copyDocAsRichLink: const answer
\*   readCap   : history: how the clipboard could be read
\*   duplicate : copyDocAsRichLink: const duplicate
\*   written   : what the activation put on the clipboard
\*   note      : the notification on screen
GdocsStart ==
    [pc |-> "idle", clipboard |-> NotWritten, clip0 |-> NotWritten,
     answer |-> [none |-> TRUE], readCap |-> "none", duplicate |-> FALSE,
     written |-> NotWritten, note |-> ""]

\* github-autoscroll.js in a document it has not been run in.
\*   files      : getFiles(), each file by isViewed
\*   listeners  : the click listeners installed on the document, each named
\*                by the activation whose onButtonClick it is
\*   stop       : window.__ghAutoScrollStop: the activation whose stop
\*                function it holds, 0 when unset
\*   runs       : the activations so far
\*   note       : the notification on screen
\*   scrolledTo : the file last scrolled to, 0 for none
\*   threw      : the last timer callback of onButtonClick threw
\*   last       : history: the last operation
AutoscrollStart ==
    [files |-> << >>, listeners |-> {}, stop |-> 0, runs |-> 0, note |-> "",
     scrolledTo |-> 0, threw |-> FALSE, last |-> [op |-> "none"]]

Notification(kind, message) == [kind |-> kind, message |-> message]

RECURSIVE JoinLines(_)
\* lines.join('\n')
JoinLines(lines) ==
    IF Len(lines) = 1 THEN lines[1]
    ELSE lines[1] \o "\n" \o JoinLines(Tail(lines))

\* toClipboard, lines 168-170: the success notification.
SuccessNote(this, l) ==
    LET showHeaderInPreview == l.linkUrl = this.headerUrl
    IN  Notification("SUCCESS",
            "Copied rich link to clipboard\n"
                \o JoinLines(preview(this, showHeaderInPreview)))

\* SlotAfterCopy that caches whatever Clipboard.write returned.
SlotAfterCopy_Always(success, this, slot, t, setThrows) ==
    cache(this, slot, t, setThrows)

\* toClipboard, lines 165-173: the slot after Clipboard.write returned
\* success; cache() is called on success only.
SlotAfterCopy(success, this, slot, t, setThrows) ==
    IF success THEN cache(this, slot, t, setThrows) ELSE slot

\* The variables of one activation, before it starts.
Idle ==
    /\ pc = "idle"
    /\ page = NoPage
    /\ handler = NoHandler
    /\ info = NoInfo
    /\ item0 = NoItem
    /\ readAt = 0
    /\ getThrew = FALSE
    /\ cached = NoInfo
    /\ includeHeader = FALSE
    /\ link = NoLink
    /\ payload = NoPayload
    /\ caps = NoCaps
    /\ cw = NoWrite
    /\ notes = <<>>
    /\ outcome = "none"

Init ==
    /\ now = 0
    /\ item = NoItem
    /\ prev = NoPrev
    /\ other = NoOther
    /\ gdocs = GdocsStart
    /\ autoscroll = AutoscrollStart
    /\ Idle

\* Time passes between two activations.
Tick(d) ==
    /\ pc = "idle"
    /\ now + d <= MaxTime
    /\ now' = now + d
    /\ UNCHANGED << item, prev, pc, page, handler, info, item0, readAt, getThrew, cached,
                    includeHeader, link, payload, caps, cw, notes, outcome, other,
                    gdocs, autoscroll >>

\* execute, lines 502-512: the user activates the bookmarklet on page p; the
\* handler is looked up, and without one the activation ends here.
Activate(p) ==
    /\ pc = "idle"
    /\ now + 2 * FocusDelayMs <= MaxTime
    /\ page' = p
    /\ item0' = item
    /\ handler' = FindHandler(p.href)
    /\ IF handler' = NoHandler
       THEN /\ notes' = << Notification("ERROR", "No handler found for this page") >>
            /\ outcome' = "FAILED"
            /\ pc' = "done"
       ELSE /\ pc' = "extracting"
            /\ UNCHANGED << notes, outcome >>
    /\ UNCHANGED << now, item, prev, info, readAt, getThrew, cached, includeHeader, link, payload,
                    caps, cw, other,
                    gdocs, autoscroll >>

\* execute, line 514: await handler.extractInfo().  A throw rejects the
\* promise execute() returned; the try/catch around the call of execute()
\* (lines 521-526) has already been left, so nothing reports it.
Extract ==
    /\ pc = "extracting"
    /\ LET r == extractInfo(handler, page)
       IN  IF r = Threw
           THEN /\ outcome' = "REJECTED"
                /\ pc' = "done"
                /\ UNCHANGED info
           ELSE /\ info' = r
                /\ pc' = "checking"
                /\ UNCHANGED outcome
    /\ UNCHANGED << now, item, prev, page, handler, item0, readAt, getThrew, cached,
                    includeHeader, link, payload, caps, cw, notes, other,
                    gdocs, autoscroll >>

\* toClipboard, lines 150-154: the cache is read and compared.  A throw of
\* getCached rejects toClipboard and with it execute.
CheckDuplicate(getThrows, removeThrows) ==
    /\ pc = "checking"
    /\ LET g == getCached(item, now, getThrows, removeThrows)
       IN  /\ item' = g.item
           /\ readAt' = now
           /\ getThrew' = getThrows
           /\ cached' = g.cached
           /\ IF g.threw
              THEN /\ outcome' = "REJECTED"
                   /\ pc' = "done"
                   /\ UNCHANGED includeHeader
              ELSE /\ includeHeader' = IncludeHeader(info, g.cached)
                   /\ pc' = "rendering"
                   /\ UNCHANGED outcome
    /\ UNCHANGED << now, prev, page, handler, info, item0, link, payload, caps,
                    cw, notes, other,
                    gdocs, autoscroll >>

\* toClipboard, lines 157-160: the link and its two representations.
Render ==
    /\ pc = "rendering"
    /\ link' = getLinkTextAndUrl(info, includeHeader)
    /\ payload' = [html |-> HtmlOf(link'), text |-> TextOf(link')]
    /\ pc' = "writing"
    /\ UNCHANGED << now, item, prev, page, handler, info, item0, readAt, getThrew, cached,
                    includeHeader, caps, cw, notes, outcome, other,
                    gdocs, autoscroll >>

\* The settlements of the platform calls of one Clipboard.write.
SettlementRuns == UNION { [1..n -> Settlements] : n \in 0..MaxCalls }

\* The platform calls a Clipboard.write made.
PlatformCalls(w) == SelectSeq(w.calls, LAMBDA c : c.op # "focus")

\* The runs <<platform, settlements>> in which Clipboard.write, given two
\* non-empty representations, awaits exactly the calls that settle.
CompleteRuns ==
    { r \in Platforms \X SettlementRuns :
        LET w == ClipboardWrite(r[1], "html", "text", r[2])
        IN  w.stage = "returned" /\ Len(PlatformCalls(w)) = Len(r[2]) }

\* toClipboard, line 163: await Clipboard.write({html, text}) on platform c,
\* the platform calls settling as rs; the focus waits take their time.
Write(c, rs) ==
    /\ pc = "writing"
    /\ cw = NoWrite
    /\ LET w == ClipboardWrite(c, payload.html, payload.text, rs)
       IN  /\ w.stage = "returned"
           /\ Len(PlatformCalls(w)) = Len(rs)
           /\ cw' = w
           /\ now' = now + w.waited
    /\ caps' = c
    /\ UNCHANGED << item, prev, pc, page, handler, info, item0, readAt, getThrew, cached,
                    includeHeader, link, payload, notes, outcome, other,
                    gdocs, autoscroll >>

\* toClipboard, lines 165-175: the record is cached and the outcome is
\* notified.  setThrows: localStorage.setItem throws.
Finish(setThrows) ==
    /\ pc = "writing"
    /\ cw.stage = "returned"
    /\ item' = SlotAfterCopy(cw.result, info, item, now, setThrows)
    /\ IF cw.result
       THEN /\ notes' = Append(notes, SuccessNote(info, link))
            /\ outcome' = "SUCCEEDED"
            /\ prev' = [info |-> info, at |-> now, stored |-> ~ setThrows,
                        since |-> IF includeHeader /\ prev # NoPrev
                                  THEN prev.since ELSE now]
       ELSE /\ notes' = Append(notes, Notification("ERROR", "Failed to copy to clipboard"))
            /\ outcome' = "FAILED"
            /\ UNCHANGED prev
    /\ pc' = "done"
    /\ UNCHANGED << now, page, handler, info, item0, readAt, getThrew, cached, includeHeader, link,
                    payload, caps, cw, other,
                    gdocs, autoscroll >>

\* The activation is over; its locals are gone.
Return ==
    /\ pc = "done"
    /\ pc' = "idle"
    /\ page' = NoPage
    /\ handler' = NoHandler
    /\ info' = NoInfo
    /\ item0' = NoItem
    /\ readAt' = 0
    /\ getThrew' = FALSE
    /\ cached' = NoInfo
    /\ includeHeader' = FALSE
    /\ link' = NoLink
    /\ payload' = NoPayload
    /\ caps' = NoCaps
    /\ cw' = NoWrite
    /\ notes' = <<>>
    /\ outcome' = "none"
    /\ UNCHANGED << now, item, prev, other,
                    gdocs, autoscroll >>

\* Another script of the origin (or an older release) leaves a value in the
\* slot that getCached cannot parse.
ForeignWrite ==
    /\ pc = "idle"
    /\ item # Garbage
    /\ item' = Garbage
    /\ UNCHANGED << now, prev, pc, page, handler, info, item0, readAt, getThrew, cached,
                    includeHeader, link, payload, caps, cw, notes, outcome, other,
                    gdocs, autoscroll >>

\* The bookmarklet on a page whose localStorage works.
Next ==
    \/ \E d \in Pauses : Tick(d)
    \/ \E p \in Visited : Activate(p)
    \/ Extract
    \/ CheckDuplicate(FALSE, FALSE)
    \/ Render
    \/ \E r \in CompleteRuns : Write(r[1], r[2])
    \/ Finish(FALSE)
    \/ Return

Spec == Init /\ [][Next]_vars

\* The pages and the clipboard runs of the activations with storage faults:
\* a page with and one without header fields, a throwing extraction, no
\* handler; a copy that succeeds at once, one that succeeds after the focus
\* wait, one that fails.
FaultPages == { DocHeading, PullPage, AirtableNoTitle, OtherPage }

FaultRuns ==
    { r \in CompleteRuns :
        /\ r[1] = Caps(TRUE, TRUE, TRUE, TRUE)
        /\ r[2] \in { << "ok" >>, << "focus", "ok" >>, << "other", "other" >> } }

\* The bookmarklet on a page whose localStorage may throw or hold a value
\* the program did not write.
NextFaults ==
    \/ \E d \in Pauses : Tick(d)
    \/ \E p \in FaultPages : Activate(p)
    \/ Extract
    \/ \E g \in BOOLEAN, r \in BOOLEAN : CheckDuplicate(g, r)
    \/ Render
    \/ \E r \in FaultRuns : Write(r[1], r[2])
    \/ \E st \in BOOLEAN : Finish(st)
    \/ Return
    \/ ForeignWrite

SpecFaults == Init /\ [][NextFaults]_vars


\* ------------------------------------------- Clipboard.write, call by call
\* The contents Clipboard.write is called with: both representations, the
\* text only, the html only.
Contents ==
    { [html |-> "<a href=\"https://example.com/about\">About</a>",
       text |-> "About (https://example.com/about)"],
      [html |-> Null, text |-> "About"],
      [html |-> "<b>About</b>", text |-> ""] }

\* Every combination of capabilities a browser can offer: write and
\* writeText are properties of navigator.clipboard.
Browsers ==
    { c \in [clipboard : BOOLEAN, write : BOOLEAN, ClipboardItem : BOOLEAN,
             writeText : BOOLEAN] :
        ~ c.clipboard => (~ c.write /\ ~ c.writeText) }

\* Clipboard.write(content) is called and runs up to its first await.
Call(c, content) ==
    /\ pc = "idle"
    /\ cw = NoWrite
    /\ caps' = c
    /\ payload' = content
    /\ cw' = WriteStart(c, content.html, content.text)
    /\ UNCHANGED << now, item, prev, pc, page, handler, info, item0, readAt,
                    getThrew, cached, includeHeader, link, notes, outcome, other,
                    gdocs, autoscroll >>

\* The platform call Clipboard.write awaits settles.
Settles(res) ==
    /\ pc = "idle"
    /\ cw.stage \in { "rich", "richRetry", "plain", "plainRetry" }
    /\ cw' = Settle(cw, res, caps, payload.html, payload.text)
    /\ UNCHANGED << now, item, prev, pc, page, handler, info, item0, readAt,
                    getThrew, cached, includeHeader, link, payload, caps, notes, outcome, other,
                    gdocs, autoscroll >>

\* The caller has the result.
Returned ==
    /\ pc = "idle"
    /\ cw.stage = "returned"
    /\ cw' = NoWrite
    /\ caps' = NoCaps
    /\ payload' = NoPayload
    /\ UNCHANGED << now, item, prev, pc, page, handler, info, item0, readAt,
                    getThrew, cached, includeHeader, link, notes, outcome, other,
                    gdocs, autoscroll >>

NextClipboard ==
    \/ \E c \in Browsers, content \in Contents : Call(c, content)
    \/ \E res \in Settlements : Settles(res)
    \/ Returned

\* Clipboard.write alone, one platform call at a time.
SpecClipboard == Init /\ [][NextClipboard]_vars


\* ------------------------------------------------ WebpageInfo, call by call
\* The styles a WebpageInfo is constructed with: the two the switch of
\* getLinkTextAndUrl names, and one it does not (the default case).
Styles == { "normal", "spinnaker", "plain" }

\* The WebpageInfo objects the constructor is called for: a title and its
\* address, a header text that is null, empty or present, a header address
\* that is null or present, every style.
Infos ==
    { WebpageInfo(tt, "https://a.example/doc", ht, hu, st) :
        tt \in { "Plan", "provisioner" },
        ht \in { Null, "", "Budget" },
        hu \in { Null, "https://a.example/doc#h" },
        st \in Styles }

\* new richlinker.WebpageInfo({...})
Construct(i) ==
    /\ pc = "idle"
    /\ info = NoInfo
    /\ info' = i
    /\ UNCHANGED << now, item, prev, pc, page, handler, item0, readAt, getThrew,
                    cached, includeHeader, link, payload, caps, cw, notes, outcome, other,
                    gdocs, autoscroll >>

\* toClipboard, line 151: cached && this.isSameAs(cached), for a cached
\* object o.
Compare(o) ==
    /\ pc = "idle"
    /\ info # NoInfo
    /\ cached = NoInfo
    /\ link = NoLink
    /\ cached' = o
    /\ includeHeader' = IncludeHeader(info, o)
    /\ UNCHANGED << now, item, prev, pc, page, handler, info, item0, readAt,
                    getThrew, link, payload, caps, cw, notes, outcome, other,
                    gdocs, autoscroll >>

\* this.getLinkTextAndUrl(b)
RenderLink(b) ==
    /\ pc = "idle"
    /\ info # NoInfo
    /\ cached = NoInfo
    /\ link = NoLink
    /\ includeHeader' = b
    /\ link' = getLinkTextAndUrl(info, b)
    /\ UNCHANGED << now, item, prev, pc, page, handler, info, item0, readAt,
                    getThrew, cached, payload, caps, cw, notes, outcome, other,
                    gdocs, autoscroll >>

\* The object is dropped.
Discard ==
    /\ pc = "idle"
    /\ info # NoInfo
    /\ info' = NoInfo
    /\ cached' = NoInfo
    /\ includeHeader' = FALSE
    /\ link' = NoLink
    /\ UNCHANGED << now, item, prev, pc, page, handler, item0, readAt, getThrew,
                    payload, caps, cw, notes, outcome, other,
                    gdocs, autoscroll >>

NextInfo ==
    \/ \E i \in Infos : Construct(i)
    \/ \E o \in Infos : Compare(o)
    \/ \E b \in BOOLEAN : RenderLink(b)
    \/ Discard

\* The methods of WebpageInfo alone, on every object of Infos.
SpecInfo == Init /\ [][NextInfo]_vars


\* ---------------------------------------------- cache() and getCached()
\* this.cache() on the object constructed, localStorage working.
StoreRecord ==
    /\ pc = "idle"
    /\ info # NoInfo
    /\ item0 = NoItem
    /\ item # CacheRecord(info, now)
    /\ item' = cache(info, item, now, FALSE)
    /\ prev' = [info |-> info, at |-> now, stored |-> TRUE, since |-> now]
    /\ UNCHANGED << now, pc, page, handler, info, item0, readAt, getThrew, cached,
                    includeHeader, link, payload, caps, cw, notes, outcome, other,
                    gdocs, autoscroll >>

\* richlinker.WebpageInfo.getCached() on a slot that holds a record.
LoadRecord ==
    /\ pc = "idle"
    /\ item0 = NoItem
    /\ item # NoItem
    /\ LET g == getCached(item, now, FALSE, FALSE)
       IN  /\ cached' = g.cached
           /\ item' = g.item
    /\ item0' = item
    /\ readAt' = now
    /\ UNCHANGED << now, prev, pc, page, handler, info, getThrew, includeHeader, link,
                    payload, caps, cw, notes, outcome, other,
                    gdocs, autoscroll >>

\* The objects constructed and loaded are dropped.
Forget ==
    /\ pc = "idle"
    /\ info # NoInfo \/ item0 # NoItem
    /\ info' = NoInfo
    /\ item0' = NoItem
    /\ readAt' = 0
    /\ cached' = NoInfo
    /\ UNCHANGED << now, item, prev, pc, page, handler, getThrew, includeHeader, link,
                    payload, caps, cw, notes, outcome, other,
                    gdocs, autoscroll >>

NextCache ==
    \/ \E d \in Pauses : Tick(d)
    \/ \E i \in Infos : Construct(i)
    \/ StoreRecord
    \/ LoadRecord
    \/ Forget

\* cache() and getCached() alone, on every object of Infos.
SpecCache == Init /\ [][NextCache]_vars


\* ------------------------------------- handler selection and extraction
\* What follows the address of a page: nothing, a path or a query that
\* names another supported site, a further path segment.
Suffixes ==
    { << >>,
      << "/", "docs.google.com", "/", "document", "/", "d", "/", "x" >>,
      << "?", "from=", ".atlassian.net", "/", "wiki", "/", "spaces", "/" >>,
      << "?", "h=", "spinnaker.k8s.", "a", ".cloud", "#", "/", "applications",
         "/", "x", "/", "executions" >>,
      << "/", "files" >> }

\* The pages of Pages at each of these addresses.
AddressedPages ==
    { [p EXCEPT !.href = @ \o sfx] : p \in Pages, sfx \in Suffixes }

\* execute up to the end of its await of handler.extractInfo(), on every
\* page of AddressedPages.
NextExtract ==
    \/ \E p \in AddressedPages : Activate(p)
    \/ Extract
    \/ Return

SpecExtract == Init /\ [][NextExtract]_vars


\* ------------------------------------------- activations with debug output
\* NotificationSystem.showDebug, one call: the session flag is unset and
\* nothing is shown ("off"); the flag is set and NotificationSystem.show
\* returns ("shown"); the flag is set and show throws, on every call
\* ("throws") or on the first call only ("throwsOnce").  showDebug has no
\* try of its own, so a throw of show leaves it.  A notification that is
\* shown replaces the element of the one before it; notes keeps the
\* success and error notifications.
DebugEmits == { "off", "shown", "throws", "throwsOnce" }

DebugThrows(emit) == emit \in { "throws", "throwsOnce" }

\* The pages of the activations with debug output.
DebugPages == { DocHeading, PullPage, SpinnakerExecution, OtherPage }

\* The page as the handler sees it when a showDebug call inside a try
\* block throws: GoogleDocsHandler.extractInfo (lines 250-263) and
\* SpinnakerHandler.extractPipelineName (lines 409-440) go to their catch
\* blocks as they do when the DOM query throws.
ThrowInsideTry(p) ==
    [p EXCEPT !.outline.throws = TRUE, !.pipeline.throws = TRUE]

\* execute, lines 502-512, with the showDebug call of line 503: a throw
\* there leaves execute before handlers.find and rejects its promise.
ActivateDebug(p, emit) ==
    /\ pc = "idle"
    /\ now + 2 * FocusDelayMs <= MaxTime
    /\ page' = p
    /\ item0' = item
    /\ IF DebugThrows(emit)
       THEN /\ outcome' = "REJECTED"
            /\ pc' = "done"
            /\ UNCHANGED << handler, notes >>
       ELSE /\ handler' = FindHandler(p.href)
            /\ IF handler' = NoHandler
               THEN /\ notes' = << Notification("ERROR", "No handler found for this page") >>
                    /\ outcome' = "FAILED"
                    /\ pc' = "done"
               ELSE /\ pc' = "extracting"
                    /\ UNCHANGED << notes, outcome >>
    /\ UNCHANGED << now, item, prev, info, readAt, getThrew, cached, includeHeader, link, payload,
                    caps, cw, other,
                    gdocs, autoscroll >>

\* execute, lines 514-515, with the showDebug calls of the handler and the
\* one of line 515.  "throws": the first call outside a try block throws
\* (lines 247, 282, 328, 449, and 515 after GitHubHandler) and rejects
\* execute.  "throwsOnce": the first call inside a try block throws and the
\* calls after it return.
ExtractDebug(emit) ==
    /\ pc = "extracting"
    /\ LET r == CASE emit = "throws"     -> Threw
                  [] emit = "throwsOnce" -> extractInfo(handler, ThrowInsideTry(page))
                  [] OTHER               -> extractInfo(handler, page)
       IN  IF r = Threw
           THEN /\ outcome' = "REJECTED"
                /\ pc' = "done"
                /\ UNCHANGED info
           ELSE /\ info' = r
                /\ pc' = "checking"
                /\ UNCHANGED outcome
    /\ UNCHANGED << now, item, prev, page, handler, item0, readAt, getThrew, cached,
                    includeHeader, link, payload, caps, cw, notes, other,
                    gdocs, autoscroll >>

\* The bookmarklet with debug output, on a page whose localStorage works.
NextDebug ==
    \/ \E d \in Pauses : Tick(d)
    \/ \E p \in DebugPages, emit \in DebugEmits : ActivateDebug(p, emit)
    \/ \E emit \in DebugEmits : ExtractDebug(emit)
    \/ CheckDuplicate(FALSE, FALSE)
    \/ Render
    \/ \E r \in FaultRuns : Write(r[1], r[2])
    \/ Finish(FALSE)
    \/ Return

SpecDebug == Init /\ [][NextDebug]_vars


\* ------------------------------------------------- overlapping activations
\* The bookmarklet can be activated again while an activation awaits its
\* Clipboard.write (richlinker.js:163): execute runs synchronously up to
\* that await, so a second activation runs from its start to its own await
\* in between.  other is that second activation while its write is pending.
OverlapPages == { DocHeading, PullPage }

\* The activation under way awaits its Clipboard.write, or none is under way.
AtAwait ==
    \/ pc = "idle"
    \/ pc = "writing" /\ cw = NoWrite

\* execute and toClipboard up to the await of Clipboard.write (lines
\* 500-163), for a second activation on page p: handler, extraction, cache
\* read and comparison.
OtherStarts(p) ==
    /\ AtAwait
    /\ other = NoOther
    /\ FindHandler(p.href) # NoHandler
    /\ extractInfo(FindHandler(p.href), p) # Threw
    /\ LET i == extractInfo(FindHandler(p.href), p)
           g == getCached(item, now, FALSE, FALSE)
       IN  /\ item' = g.item
           /\ other' = [info |-> i, readAt |-> now,
                        includeHeader |-> IncludeHeader(i, g.cached)]
    /\ UNCHANGED << now, prev, pc, page, handler, info, item0, readAt, getThrew, cached,
                    includeHeader, link, payload, caps, cw, notes, outcome,
                    gdocs, autoscroll >>

\* toClipboard, lines 163-175, for the second activation: its
\* Clipboard.write returns success, and the record is cached on success.
OtherSettles(success) ==
    /\ AtAwait
    /\ other # NoOther
    /\ item' = SlotAfterCopy(success, other.info, item, now, FALSE)
    /\ prev' = IF success
               THEN [info |-> other.info, at |-> now, stored |-> TRUE,
                     since |-> IF other.includeHeader /\ prev # NoPrev
                               THEN prev.since ELSE now]
               ELSE prev
    /\ other' = NoOther
    /\ UNCHANGED << now, pc, page, handler, info, item0, readAt, getThrew, cached,
                    includeHeader, link, payload, caps, cw, notes, outcome,
                    gdocs, autoscroll >>

\* Two activations that may overlap, on a page whose localStorage works.
NextOverlap ==
    \/ \E d \in Pauses : Tick(d)
    \/ \E p \in OverlapPages : Activate(p)
    \/ Extract
    \/ CheckDuplicate(FALSE, FALSE)
    \/ Render
    \/ \E r \in FaultRuns : Write(r[1], r[2])
    \/ Finish(FALSE)
    \/ Return
    \/ \E p \in OverlapPages : OtherStarts(p)
    \/ \E success \in BOOLEAN : OtherSettles(success)

SpecOverlap == Init /\ [][NextOverlap]_vars


\* ------------------------------------------------------------ gdocs-slack.js
\* new DocumentLinkAnswer(title, url, headingText = null)
DocumentLinkAnswer(title, url, headingText) ==
    [title |-> title, url |-> url, headingText |-> headingText]

\* DocumentLinkAnswer.getFinalTitle({includeHeader = true})
getFinalTitle(a, withHeader) ==
    IF withHeader /\ Truthy(a.headingText)
    THEN a.title \o " #" \o a.headingText
    ELSE a.title

\* DocumentLinkAnswer.toRichText(options)
toRichText(a, withHeader) ==
    "<a href=\"" \o a.url \o "\">" \o getFinalTitle(a, withHeader) \o "</a>"

\* DocumentLinkAnswer.toPlainText({includeHeader = true})
toPlainText(a, withHeader) ==
    LET title == IF withHeader THEN getFinalTitle(a, withHeader) ELSE a.title
    IN  title \o ": " \o a.url

\* What a ClipboardItem of the answer, and what writeText of it, puts on
\* the clipboard.
RichContent(a, withHeader) ==
    [kind |-> "rich", html |-> toRichText(a, withHeader),
     text |-> toPlainText(a, withHeader)]

PlainContent(a, withHeader) ==
    [kind |-> "plain", text |-> toPlainText(a, withHeader)]

\* dereferenceHeading(): the text of the highlighted outline entry.
dereferenceHeading(o) ==
    IF ~ o.item THEN Null
    ELSE IF o.content /\ Truthy(o.tooltip) THEN o.tooltip
    ELSE IF o.content /\ Truthy(o.text) THEN o.text
    ELSE IF o.container /\ o.aria # <<>>
         THEN IF o.aria[Len(o.aria)] \in LevelSuffix
              THEN Str(SubSeq(o.aria, 1, Len(o.aria) - 1))
              ELSE Str(o.aria)
    ELSE Null

\* hash.includes('heading='), the hash being what follows the first '#'.
HashHasHeading(href) ==
    LET at == IndexOf(href, << "#" >>)
    IN  /\ at > 0
        /\ \E j \in (at + 1)..Len(href) :
              /\ Len(href[j]) >= 8
              /\ SubSeq(href[j], 1, 8) = "heading="

\* getHeadingFromUrl(), its text: null without a heading anchor in the
\* hash, and null when dereferenceHeading throws (caught, line 383).
getHeadingFromUrl(p) ==
    IF ~ HashHasHeading(p.href) THEN Null
    ELSE IF p.outline.throws THEN Null
    ELSE dereferenceHeading(p.outline)

\* isGoogleDocsPage()
isGoogleDocsPage(href) ==
    /\ Len(href) >= 4
    /\ href[4] = "docs.google.com"
    /\ Includes(SubSeq(href, 5, Len(href)), << "/", "document", "/" >>)

\* getAnswer()
getAnswer(p) ==
    LET cleanTitle  == Str(RemoveFirst(p.title, " - Google Docs"))
        headingText == IF Truthy(getHeadingFromUrl(p))
                       THEN getHeadingFromUrl(p) ELSE Null
    IN  DocumentLinkAnswer(cleanTitle, Str(p.href), headingText)

\* How the clipboard can be read: navigator.clipboard.read returns the
\* items ("items"); read rejects and readText returns the text ("text");
\* there is no navigator.clipboard.read ("none"); read and readText both
\* reject ("denied").
ReadCaps == { "items", "text", "none", "denied" }

\* The text/html a browser gives back for html it has sanitized.
Sanitized(html) == "<meta charset='utf-8'>" \o html

\* isDuplicate that compares the text/html representation only.
isDuplicate_HtmlOnly(a, clipboard, readCap, verbatim) ==
    /\ readCap = "items"
    /\ clipboard.kind = "rich"
    /\ (IF verbatim THEN clipboard.html ELSE Sanitized(clipboard.html))
           = toRichText(a, TRUE)

\* isDuplicate(answer).  verbatim: the text/html read back is the html
\* that was written.
isDuplicate(a, clipboard, readCap, verbatim) ==
    CASE readCap = "none"   -> FALSE
      [] readCap = "denied" -> FALSE
      [] readCap = "items"  ->
            \/ /\ clipboard.kind = "rich"
               /\ (IF verbatim THEN clipboard.html ELSE Sanitized(clipboard.html))
                      = toRichText(a, TRUE)
            \/ /\ clipboard.kind \in { "rich", "plain" }
               /\ clipboard.text = toPlainText(a, TRUE)
      [] readCap = "text"   ->
            /\ clipboard.kind \in { "rich", "plain" }
            /\ clipboard.text = toPlainText(a, TRUE)

\* DocumentLinkAnswer.fallbackTextCopy(options): what it writes, its
\* writeText settling as res.
fallbackTextCopy(a, withHeader, c, res) ==
    IF c.clipboard /\ c.writeText /\ res = "ok"
    THEN PlainContent(a, withHeader)
    ELSE NotWritten

\* DocumentLinkAnswer.toClipboard(options) with _attemptFocusWorkaround:
\* what it writes, its platform calls settling as rs[1], rs[2], rs[3].
toClipboard(a, withHeader, c, rs) ==
    IF ~ (c.clipboard /\ c.write /\ c.ClipboardItem)
    THEN fallbackTextCopy(a, withHeader, c, rs[1])
    ELSE IF rs[1] = "ok"
    THEN RichContent(a, withHeader)
    ELSE IF rs[1] = "focus"
    THEN IF rs[2] = "ok"
         THEN RichContent(a, withHeader)
         ELSE fallbackTextCopy(a, withHeader, c, rs[3])
    ELSE fallbackTextCopy(a, withHeader, c, rs[2])

\* The documents gdocs-slack.js is run on: a heading anchor with its
\* outline entry, the anchor without an entry, no anchor, an anchor on an
\* outline whose query throws, and a page that is no document.
GdocsPages ==
    { DocHeading, DocNoHeading, DocAria,
      [DocThrows EXCEPT !.href = DocHeading.href], OtherPage }

\* How the platform calls of one toClipboard settle.
GdocsRuns ==
    { << "ok", "ok", "ok" >>, << "focus", "ok", "ok" >>,
      << "focus", "other", "ok" >>, << "other", "ok", "ok" >>,
      << "other", "other", "other" >>, << "focus", "focus", "focus" >> }

\* execute() up to the end of isDuplicate (lines 532-522): the page test,
\* getAnswer and the clipboard comparison.
GdocsExecute(p, readCap, verbatim) ==
    /\ gdocs.pc = "idle"
    /\ IF ~ isGoogleDocsPage(p.href)
       THEN gdocs' = [gdocs EXCEPT !.note = "This only works on Google Docs"]
       ELSE gdocs' = [gdocs EXCEPT
                        !.pc = "copying",
                        !.clip0 = gdocs.clipboard,
                        !.answer = getAnswer(p),
                        !.readCap = readCap,
                        !.duplicate = isDuplicate(getAnswer(p), gdocs.clipboard,
                                                  readCap, verbatim),
                        !.written = NotWritten,
                        !.note = ""]
    /\ UNCHANGED << richlinkerVars, autoscroll >>

\* copyDocAsRichLink, line 524: answer.toClipboard({includeHeader:
\* !duplicate}).
GdocsCopy(c, rs) ==
    /\ gdocs.pc = "copying"
    /\ LET w == toClipboard(gdocs.answer, ~ gdocs.duplicate, c, rs)
       IN  gdocs' = [gdocs EXCEPT
                       !.pc = "done",
                       !.written = w,
                       !.clipboard = IF w = NotWritten THEN @ ELSE w,
                       !.note = IF w = NotWritten THEN "Copy failed"
                                ELSE IF w.kind = "rich"
                                THEN "Rich link copied for Slack!"
                                ELSE "Link copied (plain text)"]
    /\ UNCHANGED << richlinkerVars, autoscroll >>

\* The activation is over.
GdocsReturn ==
    /\ gdocs.pc = "done"
    /\ gdocs' = [GdocsStart EXCEPT !.clipboard = gdocs.clipboard]
    /\ UNCHANGED << richlinkerVars, autoscroll >>

\* The user copies something else.
ForeignCopy ==
    /\ gdocs.pc = "idle"
    /\ gdocs.clipboard # [kind |-> "plain", text |-> "lunch at noon"]
    /\ gdocs' = [gdocs EXCEPT !.clipboard = [kind |-> "plain", text |-> "lunch at noon"]]
    /\ UNCHANGED << richlinkerVars, autoscroll >>

NextGdocs ==
    \/ \E p \in GdocsPages, readCap \in ReadCaps, verbatim \in BOOLEAN :
          GdocsExecute(p, readCap, verbatim)
    \/ \E c \in Platforms, rs \in GdocsRuns : GdocsCopy(c, rs)
    \/ GdocsReturn
    \/ ForeignCopy

\* gdocs-slack.js, one activation after the other.
SpecGdocs == Init /\ [][NextGdocs]_vars


\* ------------------------------------------------------ github-autoscroll.js
\* The activations of github-autoscroll.js in one document.
MaxRuns == 4

\* The files of the longest pull request.
MaxFiles == 3

\* isGitHubPRPage()
isGitHubPRPage(url) ==
    LET parts == SplitOn(url, "/")
    IN  /\ Len(parts) >= 7
        /\ Str(parts[3]) = "github.com"
        /\ Str(parts[6]) = "pull"
        /\ IsNumber(Str(parts[7]))

\* findNextUnviewedAfter(afterEl), afterEl being files[idx]: a position,
\* or 0 for null.
findNextUnviewedAfter(files, idx) ==
    LET unviewed == { i \in (idx + 1)..Len(files) : ~ files[i] }
    IN  IF unviewed # {}
        THEN CHOOSE i \in unviewed : \A j \in unviewed : i <= j
        ELSE IF idx + 1 <= Len(files) THEN idx + 1 ELSE 0

\* A stop function that leaves the listener installed.
stopFunction_KeepsListener(a) ==
    [a EXCEPT !.stop = 0, !.note = "GitHub PR auto-scroll disabled"]

\* The function initializeAutoScroll returns (lines 291-302), called as
\* window.__ghAutoScrollStop: it removes the onButtonClick of the
\* activation that made it.
stopFunction(a) ==
    [a EXCEPT !.listeners = @ \ { a.stop },
              !.stop = 0,
              !.note = "GitHub PR auto-scroll disabled"]

\* initializeAutoScroll() in activation n, with the assignment of its
\* result to window.__ghAutoScrollStop (lines 324-327).  Each activation
\* runs the bookmarklet's code anew, so its onButtonClick is a function of
\* its own.
initializeAutoScroll(a, n) ==
    LET l == [a EXCEPT !.listeners = @ \cup { n }]
        unviewed == { i \in 1..Len(a.files) : ~ a.files[i] }
    IN  IF l.files = << >>
        THEN [l EXCEPT !.note = "No files found. Make sure you're on a GitHub PR page."]
        ELSE [l EXCEPT !.note = "GitHub PR auto-scroll enabled! Click again to disable",
                       !.scrolledTo =
                           IF unviewed # {}
                           THEN CHOOSE i \in unviewed : \A j \in unviewed : i <= j
                           ELSE @,
                       !.stop = n]

\* onButtonClick(e) and its timer callback, for a click on the "Viewed"
\* button of files[i], after GitHub has updated the button.  After the
\* notification of line 221 the callback goes on to getFileName(next),
\* which throws for null.
onButtonClick(a, i) ==
    IF a.listeners = {}
    THEN [a EXCEPT !.last = [op |-> "click", handled |-> FALSE]]
    ELSE IF ~ a.files[i]
    THEN [a EXCEPT !.threw = FALSE,
                   !.last = [op |-> "click", handled |-> TRUE, marked |-> FALSE]]
    ELSE LET next == findNextUnviewedAfter(a.files, i)
             l    == [op |-> "click", handled |-> TRUE, marked |-> TRUE,
                      next |-> next]
         IN  IF next = 0
             THEN [a EXCEPT !.note = "All files reviewed!", !.threw = TRUE,
                            !.last = l]
             ELSE [a EXCEPT !.scrolledTo = next, !.threw = FALSE, !.last = l]

\* The file lists of a pull request, each file viewed or not.
FileLists ==
    UNION { [1..n -> BOOLEAN] : n \in 1..MaxFiles }

\* execute()
AutoscrollExecute(url) ==
    /\ autoscroll.runs < MaxRuns
    /\ LET n == autoscroll.runs + 1
           a == [autoscroll EXCEPT
                   !.runs = n,
                   !.last = [op |-> "execute", onPR |-> isGitHubPRPage(url)]]
       IN  autoscroll' =
             IF ~ isGitHubPRPage(url)
             THEN [a EXCEPT !.note = "GitHub autoscroll only works on PR pages"]
             ELSE IF a.stop # 0
             THEN stopFunction(a)
             ELSE initializeAutoScroll(a, n)
    /\ UNCHANGED << richlinkerVars, gdocs >>

\* The page shows the files of the pull request.
LoadFiles(fs) ==
    /\ autoscroll.files = << >>
    /\ autoscroll' = [autoscroll EXCEPT !.files = fs,
                                        !.last = [op |-> "load"]]
    /\ UNCHANGED << richlinkerVars, gdocs >>

\* The user clicks the "Viewed" button of files[i]: GitHub toggles it, and
\* the click listeners run.
ClickViewed(i) ==
    /\ i \in 1..Len(autoscroll.files)
    /\ autoscroll' = onButtonClick([autoscroll EXCEPT !.files[i] = ~ @], i)
    /\ UNCHANGED << richlinkerVars, gdocs >>

\* The bookmarklet is run at the files of a pull request and at a page that
\* is none.
NextAutoscroll ==
    \/ \E url \in { PullUrl \o << "/", "files" >>, OtherPage.href } :
          AutoscrollExecute(url)
    \/ \E fs \in FileLists : LoadFiles(fs)
    \/ \E i \in 1..MaxFiles : ClickViewed(i)

\* github-autoscroll.js in one document.
SpecAutoscroll == Init /\ [][NextAutoscroll]_vars


\* ------------------------------------------------------------------ claims
\* The four value fields of two WebpageInfo agree.
SameFields(a, b) ==
    /\ a.titleText = b.titleText
    /\ a.titleUrl = b.titleUrl
    /\ a.headerText = b.headerText
    /\ a.headerUrl = b.headerUrl

\* The activation under way repeats the last successful copy: the same page
\* content, its cache read no later than 1000 ms after that copy.
RepeatOfLastCopy ==
    /\ prev # NoPrev
    /\ SameFields(info, prev.info)
    /\ readAt - prev.at <= 1000

\* The activation runs on a document whose highlighted heading was found.
DocWithHeading ==
    /\ handler = "GoogleDocsHandler"
    /\ info # NoInfo
    /\ Truthy(info.headerText)

\* <a href="U#h">P #H</a>
HeadingAnchor(i) ==
    "<a href=\"" \o i.headerUrl \o "\">" \o i.titleText \o " #" \o i.headerText
        \o "</a>"

\* <a href="U">P</a>
BaseAnchor(i) ==
    "<a href=\"" \o i.titleUrl \o "\">" \o i.titleText \o "</a>"

\* C1, as stated: on a document with a highlighted heading the first
\* activation hands <a href="U#h">P #H</a> to the clipboard and an
\* activation repeated within 1000 ms hands it <a href="U">P</a>.
C1_HeadingFirst ==
    (pc = "writing" /\ DocWithHeading) =>
        payload.html = IF RepeatOfLastCopy THEN BaseAnchor(info)
                       ELSE HeadingAnchor(info)

\* C1, amended: on a document with a highlighted heading the first
\* activation hands <a href="U">P</a> to the clipboard, an activation
\* repeated within 1000 ms of a successful copy of the same page hands it
\* <a href="U#h">P #H</a>, and a rich write puts exactly that text on the
\* clipboard.
C1_BaseFirstHeadingOnRepeat ==
    (pc = "writing" /\ DocWithHeading) =>
        /\ payload.html = IF RepeatOfLastCopy THEN HeadingAnchor(info)
                          ELSE BaseAnchor(info)
        /\ cw.written.kind = "rich" => cw.written.html = payload.html

\* C1 witness: the repeated activation on the document has written the
\* heading link.
C1_Witness ==
    /\ pc = "writing"
    /\ page = DocHeading
    /\ RepeatOfLastCopy
    /\ cw.written =
         [kind |-> "rich",
          html |-> "<a href=\"https://docs.google.com/document/d/abc/edit#heading=h.1\">Plan #Budget</a>",
          text |-> "Plan #Budget (https://docs.google.com/document/d/abc/edit#heading=h.1)"]

\* The basic link: the title and the title's address.
BasicLink(i) == [linkText |-> i.titleText, linkUrl |-> i.titleUrl]

C3_RepeatWithinWindow ==
    (pc = "rendering" /\ prev # NoPrev /\ SameFields(info, prev.info)) =>
        (includeHeader <=> readAt - prev.at <= 1000)

\* C3 witness: the second activation reads the cache exactly 1000 ms after
\* the first one's copy and is treated as a repeat.
C3_Witness ==
    /\ pc = "rendering"
    /\ prev # NoPrev
    /\ SameFields(info, prev.info)
    /\ readAt - prev.at = 1000
    /\ includeHeader

\* No registered handler recognizes the address of the page.
Unrecognized ==
    \A i \in 1..Len(handlers) : ~ canHandle(handlers[i], page.href)

\* C4: an activation on an address no handler recognizes ends with the one
\* notification ERROR 'No handler found for this page', without a clipboard
\* call and with the cache slot as it was.
C4_NoHandlerFound ==
    (pc = "done" /\ Unrecognized) =>
        /\ notes = << Notification("ERROR", "No handler found for this page") >>
        /\ outcome = "FAILED"
        /\ cw = NoWrite
        /\ payload = NoPayload
        /\ item = item0

\* C4 witness: the activation on the unsupported page has ended.
C4_Witness ==
    /\ pc = "done"
    /\ page = OtherPage
    /\ outcome = "FAILED"
    /\ Len(notes) = 1

\* C5: every activation that has ended has emitted exactly one terminal
\* notification, SUCCESS or ERROR.
C5_OneTerminalNotification ==
    pc = "done" =>
        /\ Len(notes) = 1
        /\ notes[1].kind \in { "SUCCESS", "ERROR" }

\* The calls of navigator.clipboard.write / writeText in a Clipboard.write.
CallsOf(w, op) == SelectSeq(w.calls, LAMBDA c : c.op = op)

\* C6: when the first multi-representation write fails with a focus error
\* and the retry succeeds, Clipboard.write returns true, having called
\* navigator.clipboard.write twice and writeText not at all; after a first
\* focus failure the multi-representation write is never called a third time.
C6_FocusRetrySucceeds ==
    /\ (Len(cw.calls) >= 3 /\ cw.calls[1] = Called("write", "focus")
                           /\ cw.calls[3] = Called("write", "ok")) =>
            /\ cw.stage = "returned"
            /\ cw.result = TRUE
            /\ Len(CallsOf(cw, "write")) = 2
            /\ Len(CallsOf(cw, "writeText")) = 0
    /\ Len(CallsOf(cw, "write")) <= 2

\* C6 witness: the write that failed for focus, waited and succeeded.
C6_Witness ==
    /\ cw.stage = "returned"
    /\ cw.result = TRUE
    /\ cw.calls = << Called("write", "focus"), Called("focus", "ok"),
                     Called("write", "ok") >>
    /\ cw.waited = 100

\* A platform write call of kind op was made and failed.
Failed(w, op) == \E i \in 1..Len(w.calls) : w.calls[i].op = op /\ w.calls[i].res # "ok"

\* A platform write call succeeded.
SomeCallSucceeded(w) ==
    \E i \in 1..Len(w.calls) :
        w.calls[i].op \in { "write", "writeText" } /\ w.calls[i].res = "ok"

\* C7: Clipboard.write returns true exactly when one of its platform write
\* calls succeeded, and when it returns false every avenue the platform
\* offers for the content was tried and failed.
C7_FalseOnlyIfEveryAvenueFailed ==
    cw.stage = "returned" =>
        /\ cw.result <=> SomeCallSucceeded(cw)
        /\ ~ cw.result =>
             /\ (caps.clipboard /\ caps.write /\ caps.ClipboardItem
                    /\ Truthy(payload.html) /\ Truthy(payload.text))
                  => Failed(cw, "write")
             /\ (caps.clipboard /\ caps.writeText) => Failed(cw, "writeText")

\* C7 witness: both avenues were there, both failed, the result is false.
C7_Witness ==
    /\ cw.stage = "returned"
    /\ cw.result = FALSE
    /\ Failed(cw, "write")
    /\ Failed(cw, "writeText")

\* The focus-recovery steps of a Clipboard.write, all / those after a
\* failure of op.
FocusSteps(w) == Len(CallsOf(w, "focus"))

FocusStepsAfter(w, op) ==
    Cardinality({ i \in 2..Len(w.calls) :
                    w.calls[i].op = "focus" /\ w.calls[i - 1].op = op })

\* C8, as stated: one Clipboard.write recovers the focus at most once.
C8_OneFocusRecovery ==
    FocusSteps(cw) <= 1

\* C8, amended: one Clipboard.write recovers the focus at most once for the
\* multi-representation write and at most once for the plain-text write.
C8_OneFocusRecoveryPerAvenue ==
    /\ FocusStepsAfter(cw, "write") <= 1
    /\ FocusStepsAfter(cw, "writeText") <= 1
    /\ FocusSteps(cw) = FocusStepsAfter(cw, "write") + FocusStepsAfter(cw, "writeText")

\* C8 witness: a write that recovered the focus on both avenues.
C8_Witness ==
    /\ cw.stage = "returned"
    /\ FocusStepsAfter(cw, "write") = 1
    /\ FocusStepsAfter(cw, "writeText") = 1
    /\ cw.waited = 200

\* The activation has ended without a successful copy.
EndedFailed ==
    /\ pc = "done"
    /\ outcome \in { "FAILED", "REJECTED" }

\* C9, as stated: after a failed activation the cache slot holds exactly
\* what it held when the activation started.
C9_SlotUntouchedOnFailure ==
    EndedFailed => item = item0

\* C9, amended: a failed activation writes nothing to the cache slot; the
\* slot holds what it held, or is empty because the cache read removed a
\* record that was expired or could not be read.
C9_NoCacheWriteOnFailure ==
    EndedFailed =>
        \/ item = item0
        \/ /\ item = NoItem
           /\ info # NoInfo
           /\ \/ item0 = Garbage
              \/ getThrew
              \/ item0.kind = "rec" /\ readAt - item0.timestamp > 1000

\* C9 witness: a failed activation whose cache read removed an expired record.
C9_Witness ==
    /\ EndedFailed
    /\ item0.kind = "rec"
    /\ item = NoItem

\* C10: after a successful activation the slot holds the four fields of that
\* activation's WebpageInfo with the current time, whatever it held before;
\* an activation that has not succeeded has put no record in the slot.
C10_OverwrittenOnSuccessOnly ==
    /\ (pc = "done" /\ outcome = "SUCCEEDED") =>
          item = [kind |-> "rec", timestamp |-> now,
                  webpageInfo |-> [titleText |-> info.titleText,
                                   titleUrl |-> info.titleUrl,
                                   headerText |-> info.headerText,
                                   headerUrl |-> info.headerUrl]]
    /\ (pc # "idle" /\ outcome # "SUCCEEDED") => item \in { item0, NoItem }

\* C10 witness: a successful activation has replaced the record of another
\* page.
C10_Witness ==
    /\ pc = "done"
    /\ outcome = "SUCCEEDED"
    /\ item0.kind = "rec"
    /\ item0.webpageInfo # item.webpageInfo
    /\ item.timestamp = now

\* The link handed to the clipboard carries the header text of the page.
LinkIncludesHeader ==
    /\ Truthy(info.headerText)
    /\ link.linkText \in { info.titleText \o " #" \o info.headerText,
                           "spinnaker: " \o info.headerText }

\* C11: the success notification of an activation shows the title line
\* always and the header line exactly when the link just written to the
\* clipboard included the header text.
C11_PreviewShowsWhatWasCopied ==
    (pc = "done" /\ outcome = "SUCCEEDED") =>
        notes = << Notification("SUCCESS",
                     "Copied rich link to clipboard\n"
                         \o JoinLines(preview(info, LinkIncludesHeader))) >>

\* C12: every WebpageInfo a handler extracted has its header text and its
\* header address both present or both absent.
C12_HeaderFieldsPaired ==
    info # NoInfo => ((info.headerText = Null) <=> (info.headerUrl = Null))

\* C13: isSameAs is reflexive and symmetric, and two WebpageInfo whose four
\* value fields agree are the same whatever their styles.
C13_SameAsIgnoresStyle ==
    /\ info # NoInfo => isSameAs(info, info)
    /\ (info # NoInfo /\ cached # NoInfo) =>
          /\ includeHeader = isSameAs(cached, info)
          /\ SameFields(info, cached) => includeHeader

\* C13 witness: two objects that differ in the style only were compared and
\* found the same.
C13_Witness ==
    /\ info # NoInfo
    /\ cached # NoInfo
    /\ SameFields(info, cached)
    /\ info.style # cached.style
    /\ includeHeader

\* The link of the "spinnaker" case when the header text is used.
PipelineLink(i) ==
    [linkText |-> "spinnaker: " \o i.headerText, linkUrl |-> i.headerUrl]

\* C14, as stated: getLinkTextAndUrl(false) is the title with the title's
\* address, for every style and with or without header fields.
C14_FalseIsBasicEverywhere ==
    (link # NoLink /\ ~ includeHeader) => link = BasicLink(info)

\* C14, amended: getLinkTextAndUrl(false) is the title with the title's
\* address for every style but "spinnaker" with a header text, where it is
\* "spinnaker: <header text>" with the header's address.
C14_FalseIsBasicUnlessInverted ==
    (link # NoLink /\ ~ includeHeader) =>
        link = IF info.style = "spinnaker" /\ Truthy(info.headerText)
               THEN PipelineLink(info)
               ELSE BasicLink(info)

\* C14 witness: getLinkTextAndUrl(false) on an object of style "normal" that
\* has header fields returned the title and its address.
C14_Witness ==
    /\ link # NoLink
    /\ ~ includeHeader
    /\ info.style = "normal"
    /\ info.headerText = "Budget"
    /\ info.headerUrl # Null
    /\ link = [linkText |-> "Plan", linkUrl |-> "https://a.example/doc"]

\* C15: for the style "normal" with header text and header address present,
\* getLinkTextAndUrl(true) is "<title> #<header text>" with the header's
\* address.
C15_NormalTrueIsHeaderLink ==
    (link # NoLink /\ includeHeader /\ info.style = "normal"
        /\ Truthy(info.headerText) /\ Truthy(info.headerUrl)) =>
            link = [linkText |-> info.titleText \o " #" \o info.headerText,
                    linkUrl |-> info.headerUrl]

\* C15 witness: that call returned "Plan #Budget" with the header's address.
C15_Witness ==
    /\ includeHeader
    /\ info # NoInfo
    /\ info.style = "normal"
    /\ link = [linkText |-> "Plan #Budget", linkUrl |-> "https://a.example/doc#h"]

\* The string s contains the string sub.
ContainsStr(s, sub) ==
    \E i \in 1..(Len(s) + 1) :
        /\ i + Len(sub) - 1 <= Len(s)
        /\ SubSeq(s, i, i + Len(sub) - 1) = sub

\* C16: for the style "spinnaker" with header text and header address
\* present, getLinkTextAndUrl(false) is a text that contains the header text
\* ("spinnaker: <header text>") with the header's address, and
\* getLinkTextAndUrl(true) is the title with the title's address.
C16_InvertedOrder ==
    (link # NoLink /\ info.style = "spinnaker"
        /\ Truthy(info.headerText) /\ Truthy(info.headerUrl)) =>
            IF includeHeader
            THEN link = BasicLink(info)
            ELSE /\ ContainsStr(link.linkText, info.headerText)
                 /\ link.linkText = "spinnaker: " \o info.headerText
                 /\ link.linkUrl = info.headerUrl

\* C16 witness: getLinkTextAndUrl(false) on such an object returned the
\* pipeline link.
C16_Witness ==
    /\ link # NoLink
    /\ ~ includeHeader
    /\ info # NoInfo
    /\ info.style = "spinnaker"
    /\ link = [linkText |-> "spinnaker: Budget",
               linkUrl |-> "https://a.example/doc#h"]

\* C17: without a header text the link is the title with the title's
\* address, on the first activation and on a repeat.
C17_NoHeaderSameLink ==
    (pc = "writing" /\ ~ Truthy(info.headerText)) => link = BasicLink(info)

\* The slot held, when the activation started, a record no older than
\* 1000 ms at the time of the cache read.
FreshAtRead ==
    /\ item0.kind = "rec"
    /\ readAt - item0.timestamp <= 1000

\* getCached has returned and the slot is as it left it.
LoadReturned == pc \in { "rendering", "writing" }

\* C18: a cache load returns a record only if one is stored and no older
\* than 1000 ms, and returns it whenever that is so and the slot can be
\* read; a load that returns no record leaves the slot empty, having removed
\* the expired or unparsable record it found.
C18_LoadFreshOnly ==
    LoadReturned =>
        /\ cached # NoInfo =>
              /\ FreshAtRead
              /\ SameFields(cached, item0.webpageInfo)
              /\ item = item0
        /\ (FreshAtRead /\ ~ getThrew) => cached # NoInfo
        /\ cached = NoInfo => item = NoItem

\* C18 witness: a load found a record older than 1000 ms, returned nothing
\* and removed it.
C18_Witness ==
    /\ pc = "rendering"
    /\ ~ getThrew
    /\ item0.kind = "rec"
    /\ readAt - item0.timestamp > 1000
    /\ cached = NoInfo
    /\ item = NoItem

\* The last successful activation could not store its record.
LastCopyNotStored ==
    /\ prev # NoPrev
    /\ ~ prev.stored

\* The activation under way has copied and its cache() call failed.
CopiedNotStored ==
    /\ pc = "done"
    /\ cw.stage = "returned"
    /\ cw.result
    /\ LastCopyNotStored

\* C19, as stated: when cache() fails after a successful clipboard write,
\* the activation ends SUCCEEDED with its success notification, and the next
\* activation is not treated as a repeat.
C19_NextIsFirstActivation ==
    /\ CopiedNotStored =>
          /\ outcome = "SUCCEEDED"
          /\ notes = << SuccessNote(info, link) >>
    /\ (pc = "rendering" /\ LastCopyNotStored) => ~ includeHeader

\* C19, amended: when cache() fails after a successful clipboard write, the
\* activation ends SUCCEEDED with its success notification and the slot
\* stays as the cache read left it; the next activation is treated as a
\* repeat only if the slot still holds a fresh record of the same page from
\* an earlier activation.
C19_SlotKeptOnPersistFailure ==
    /\ CopiedNotStored =>
          /\ outcome = "SUCCEEDED"
          /\ notes = << SuccessNote(info, link) >>
          /\ item = IF cached # NoInfo THEN item0 ELSE NoItem
    /\ (pc = "rendering" /\ LastCopyNotStored /\ includeHeader) =>
          /\ FreshAtRead
          /\ item0.timestamp <= prev.at
          /\ SameFields(info, item0.webpageInfo)

\* C19 witness: a copy succeeded, its record could not be stored, and the
\* slot is still empty.
C19_Witness ==
    /\ CopiedNotStored
    /\ prev.at = now
    /\ outcome = "SUCCEEDED"
    /\ Len(notes) = 1
    /\ item = NoItem

\* C20: whatever the storage fault, an activation that has its WebpageInfo
\* gets past the duplicate check: it does not end before Clipboard.write
\* was called.
C20_CheckNeverFails ==
    (pc = "done" /\ info # NoInfo) => cw.stage = "returned"

\* The handlers, by registration index, that recognize the page's address.
Recognizing ==
    { i \in 1..Len(handlers) : canHandle(handlers[i], page.href) }

\* C21: the handler an activation uses is the first in registration order
\* that recognizes the address, also when several recognize it, and none
\* when no handler does; the extraction is that handler's.
C21_FirstRecognizingHandler ==
    pc # "idle" =>
        /\ handler = NoHandler <=> Recognizing = {}
        /\ handler # NoHandler =>
              \E i \in Recognizing :
                  /\ handler = handlers[i]
                  /\ \A j \in Recognizing : i <= j
        /\ info # NoInfo => info = extractInfo(handler, page)

\* C21 witness: the address is recognized by the first and by the second
\* handler, and the first one's extraction was used.
C21_Witness ==
    /\ pc = "checking"
    /\ Recognizing = { 1, 2 }
    /\ handler = "GoogleDocsHandler"
    /\ info # NoInfo

\* C22: no address is recognized by more than one handler.
C22_AtMostOneRecognizes ==
    pc # "idle" => Cardinality(Recognizing) <= 1

\* C23: on a recognized record or pull request page without its title
\* element, the extraction returns a WebpageInfo or the activation ends
\* FAILED with one ERROR notification.
C23_MissingTitleReported ==
    (pc \in { "checking", "done" }
        /\ handler \in { "AirtableHandler", "GitHubHandler" }
        /\ page.heading = Null) =>
            \/ info # NoInfo
            \/ /\ outcome = "FAILED"
               /\ Len(notes) = 1
               /\ notes[1].kind = "ERROR"

\* C24: when the heading lookup throws on a document, the extraction still
\* returns a WebpageInfo with the title, the title's address and no header
\* fields, and the activation goes on to the duplicate check.
C24_HeadingThrowRecovered ==
    (pc \in { "checking", "done" } /\ handler = "GoogleDocsHandler"
        /\ page.outline.throws) =>
            /\ pc = "checking"
            /\ info # NoInfo
            /\ info.headerText = Null
            /\ info.headerUrl = Null

\* C25: the two representations an activation hands to Clipboard.write, and
\* what the clipboard receives, are <a href="L">T</a> and "T (L)" for the
\* one rendered text T and address L.
C25_RepresentationsAgree ==
    (pc # "idle" /\ payload # NoPayload) =>
        LET rich  == "<a href=\"" \o link.linkUrl \o "\">" \o link.linkText \o "</a>"
            plain == link.linkText \o " (" \o link.linkUrl \o ")"
        IN  /\ payload = [html |-> rich, text |-> plain]
            /\ cw.written.kind = "rich" =>
                  cw.written = [kind |-> "rich", html |-> rich, text |-> plain]
            /\ cw.written.kind = "plain" =>
                  cw.written = [kind |-> "plain", text |-> plain]

\* C25 witness: a plain-text write of the first activation on the document.
C25_Witness ==
    /\ pc = "writing"
    /\ page = DocHeading
    /\ cw.written = [kind |-> "plain",
                     text |-> "Plan (https://docs.google.com/document/d/abc/edit)"]
    /\ payload.html = "<a href=\"https://docs.google.com/document/d/abc/edit\">Plan</a>"

\* The steps from one stage of an activation to the next.
StageOrder ==
    { << "idle", "extracting" >>, << "idle", "done" >>,
      << "extracting", "checking" >>, << "extracting", "done" >>,
      << "checking", "rendering" >>, << "checking", "done" >>,
      << "rendering", "writing" >>, << "writing", "done" >>,
      << "done", "idle" >> }

\* C26: an activation moves through handler selection, extraction, cache
\* read, rendering, clipboard write, cache store and notification in that
\* order and never back; the cache is read in the one cache-read stage,
\* Clipboard.write is called once, and the slot is written only at the end
\* of the write stage, after Clipboard.write returned true.
C26_StagesInOrder ==
    [][ /\ pc' # pc => << pc, pc' >> \in StageOrder
        /\ (readAt' # readAt \/ cached' # cached) =>
              (pc = "checking" \/ pc' = "idle")
        /\ cw' # cw => ((pc = "writing" /\ cw = NoWrite) \/ pc' = "idle")
        /\ item' # item =>
              \/ pc = "checking" /\ item' = NoItem
              \/ /\ pc = "writing" /\ pc' = "done"
                 /\ cw.stage = "returned" /\ cw.result
                 /\ item' = CacheRecord(info, now)
        /\ notes' # notes => pc' \in { "done", "idle" }
      ]_vars

\* C26 witness: an activation went through every stage: it read a record
\* of another page, wrote to the clipboard and stored its own record.
C26_Witness ==
    /\ pc = "done"
    /\ outcome = "SUCCEEDED"
    /\ cached # NoInfo
    /\ ~ includeHeader
    /\ item = CacheRecord(info, now)
    /\ Len(notes) = 1

\* C28: Clipboard.write never calls navigator.clipboard.write where it or
\* ClipboardItem is missing and goes to the plain-text write instead; where
\* navigator.clipboard is missing it returns false without any call.
C28_CapabilitiesChecked ==
    cw.stage # "none" =>
        /\ ~ (caps.write /\ caps.ClipboardItem) =>
              /\ CallsOf(cw, "write") = << >>
              /\ (caps.clipboard /\ caps.writeText) =>
                    \/ cw.stage \in { "plain", "plainRetry" }
                    \/ CallsOf(cw, "writeText") # << >>
        /\ ~ caps.clipboard =>
              cw = WriteState("returned", FALSE, << >>, NotWritten, 0)

\* C28 witness: without ClipboardItem the content went to writeText alone.
C28_Witness ==
    /\ cw.stage = "returned"
    /\ cw.result
    /\ ~ caps.ClipboardItem
    /\ Truthy(payload.html)
    /\ Truthy(payload.text)
    /\ cw.calls = << Called("writeText", "ok") >>

\* The activation runs on the pipeline execution page.
OnExecutionPage ==
    /\ pc = "writing"
    /\ page.href = SpinnakerExecution.href

\* C29, as stated: on a pipeline execution page the first activation copies
\* "<application>: <pipeline>" with the execution address and a second one
\* within 1000 ms copies "<application>" with the address of the
\* executions list.
C29_ApplicationPrefix ==
    (OnExecutionPage /\ page = SpinnakerExecution) =>
        link = IF RepeatOfLastCopy
               THEN [linkText |-> "provisioner",
                     linkUrl |-> "https://spinnaker.k8s.alpha.cloud/#/applications/provisioner/executions"]
               ELSE [linkText |-> "provisioner: Deploy ALPHA",
                     linkUrl |-> "https://spinnaker.k8s.alpha.cloud/#/applications/provisioner/executions/01KC?stage=0"]

\* C30: on a pipeline execution page without a pipeline name in the DOM
\* the extraction returns, and every activation, first or repeated, copies
\* the application name with the address of the executions list.
C30_ApplicationNameOnly ==
    (pc # "idle" /\ page = SpinnakerNoName) =>
        /\ outcome # "REJECTED"
        /\ pc = "writing" =>
              link = [linkText |-> "provisioner",
                      linkUrl |-> "https://spinnaker.k8s.alpha.cloud/#/applications/provisioner/executions"]

\* C30 witness: a repeated activation on that page copies the same link.
C30_Witness ==
    /\ pc = "writing"
    /\ page = SpinnakerNoName
    /\ RepeatOfLastCopy
    /\ includeHeader
    /\ link.linkText = "provisioner"

\* C27: what an activation does is decided by the page alone, whether or
\* not debug notifications are emitted and whether or not emitting them
\* succeeds: the handler is the one that recognizes the address, a page
\* without a handler gets the error notification, and the record is the
\* one the handler extracts from the page.
C27_DebugDoesNotDecide ==
    pc # "idle" =>
        /\ handler = FindHandler(page.href)
        /\ (pc = "done" /\ FindHandler(page.href) = NoHandler) =>
              notes = << Notification("ERROR", "No handler found for this page") >>
        /\ (pc # "extracting" /\ FindHandler(page.href) # NoHandler) =>
              IF extractInfo(FindHandler(page.href), page) = Threw
              THEN outcome = "REJECTED"
              ELSE /\ info = extractInfo(FindHandler(page.href), page)
                   /\ outcome # "REJECTED"

\* The first navigator.clipboard.write of this call was rejected with an
\* error that is not a focus error.
RichFailedOtherwise ==
    /\ Len(cw.calls) >= 1
    /\ cw.calls[1] = Called("write", "other")

\* C33: after a multi-representation write that failed with an error other
\* than a focus error, Clipboard.write neither recovers the focus for it nor
\* calls navigator.clipboard.write again; the next platform call is the
\* plain-text write (where writeText exists), and the value returned is
\* whether a plain-text write succeeded.
C33_OtherErrorGoesToPlain ==
    RichFailedOtherwise =>
        /\ Len(CallsOf(cw, "write")) = 1
        /\ FocusStepsAfter(cw, "write") = 0
        /\ IF caps.writeText
           THEN IF Len(cw.calls) = 1
                THEN cw.stage = "plain"
                ELSE cw.calls[2].op = "writeText"
           ELSE cw = WriteState("returned", FALSE, << Called("write", "other") >>,
                                NotWritten, 0)
        /\ cw.stage = "returned" =>
              (cw.result <=> \E i \in 1..Len(cw.calls) :
                                cw.calls[i] = Called("writeText", "ok"))

\* C33 witness: the write failed otherwise, the plain-text write followed
\* at once and succeeded.
C33_Witness ==
    /\ cw.stage = "returned"
    /\ cw.result
    /\ cw.calls = << Called("write", "other"), Called("writeText", "ok") >>
    /\ cw.written.kind = "plain"

\* The platform calls a Clipboard.write at this stage may still await.
CallsLeft(stage) ==
    CASE stage = "rich"       -> 4
      [] stage = "richRetry"  -> 3
      [] stage = "plain"      -> 2
      [] stage = "plainRetry" -> 1
      [] OTHER                -> 0

\* C34: every settlement of a platform call brings Clipboard.write nearer
\* to its return, so it returns once its calls have settled; it returns
\* true or false, after at most two navigator.clipboard.write calls and at
\* most two writeText calls.
C34_ReturnsWithinFourCalls ==
    [][ /\ cw.stage \in { "rich", "richRetry", "plain", "plainRetry" } =>
              /\ cw' # cw
              /\ CallsLeft(cw'.stage) < CallsLeft(cw.stage)
        /\ cw'.stage = "returned" => cw'.result \in BOOLEAN
        /\ Len(CallsOf(cw', "write")) <= 2
        /\ Len(CallsOf(cw', "writeText")) <= 2
      ]_vars

\* C34 witness: a call that needed all four platform calls and returned.
C34_Witness ==
    /\ cw.stage = "returned"
    /\ ~ cw.result
    /\ Len(CallsOf(cw, "write")) = 2
    /\ Len(CallsOf(cw, "writeText")) = 2

\* C35: an activation that repeats a copy which was itself a repeat is a
\* repeat too, however long ago the chain began: every successful copy
\* stores its record with the time of that copy, so the window of 1000 ms
\* is counted from the copy before, and the link stays in the repeat form.
C35_ChainStaysRepeat ==
    /\ (pc \in { "rendering", "writing" } /\ RepeatOfLastCopy) =>
          /\ includeHeader
          /\ pc = "writing" => link = getLinkTextAndUrl(info, TRUE)
    /\ (pc = "done" /\ outcome = "SUCCEEDED") =>
          /\ item = CacheRecord(info, now)
          /\ prev.at = now

\* C35 witness: the third activation of a chain, more than 1000 ms after
\* the first copy of the chain, copies the repeat form.
C35_Witness ==
    /\ pc = "writing"
    /\ page = DocHeading
    /\ RepeatOfLastCopy
    /\ prev.since < prev.at
    /\ readAt - prev.since > ExpiryMs
    /\ includeHeader
    /\ link.linkUrl = "https://docs.google.com/document/d/abc/edit#heading=h.1"

\* An activation that ended SUCCEEDED at most 1000 ms ago copied a
\* WebpageInfo with the fields of i.
CompletedCopyOf(i) ==
    /\ prev # NoPrev
    /\ SameFields(i, prev.info)
    /\ prev.at <= now
    /\ now - prev.at <= 1000

\* C36: whichever of two overlapping activations reads the cache, it is
\* treated as a repeat only if an activation with equal fields has ended
\* with a successful clipboard write at most 1000 ms before that read; a
\* write still pending, or one that failed, does not count.
C36_RepeatNeedsCompletedCopy ==
    [][ /\ (pc = "checking" /\ includeHeader') => CompletedCopyOf(info)
        /\ (other = NoOther /\ other' # NoOther /\ other'.includeHeader) =>
              CompletedCopyOf(other'.info)
      ]_vars

\* C36 witness: an activation has read the cache while an earlier one of
\* the same page still awaits its clipboard write; it is not a repeat.
C36_Witness ==
    /\ pc = "rendering"
    /\ other # NoOther
    /\ SameFields(info, other.info)
    /\ other.readAt = readAt
    /\ ~ includeHeader
    /\ prev = NoPrev

\* C37: a record that cache() stored for an object p and that getCached()
\* loads no later than 1000 ms afterwards gives an object r with
\* p.isSameAs(r), whatever the style and the header fields of p; r has the
\* style "normal", the style of p not being stored.
C37_RoundTrip ==
    (item0.kind = "rec" /\ readAt - item0.timestamp <= ExpiryMs) =>
        /\ item0 = CacheRecord(prev.info, prev.at)
        /\ cached # NoInfo
        /\ isSameAs(prev.info, cached)
        /\ isSameAs(cached, prev.info)
        /\ cached.style = "normal"

\* C37 witness: an object of style "spinnaker" with an empty header text
\* and a header address was stored and loaded 1000 ms later.
C37_Witness ==
    /\ item0.kind = "rec"
    /\ readAt - item0.timestamp = ExpiryMs
    /\ prev.info.style = "spinnaker"
    /\ prev.info.headerText = ""
    /\ Truthy(prev.info.headerUrl)
    /\ cached # NoInfo
    /\ cached.style = "normal"

\* The clipboard held, when the activation started, the link with the
\* heading that the activation's document gives.
HeldHeaderLink ==
    gdocs.clip0 \in { RichContent(gdocs.answer, TRUE), PlainContent(gdocs.answer, TRUE) }

\* The activation ran on a document with a detected heading and copied.
CopiedWithHeading ==
    /\ gdocs.pc = "done"
    /\ Truthy(gdocs.answer.headingText)
    /\ gdocs.written # NotWritten

ActivationWithFiles ==
    /\ autoscroll'.runs = autoscroll.runs + 1
    /\ autoscroll'.last = [op |-> "execute", onPR |-> TRUE]
    /\ autoscroll.files # << >>

\* C32: on a pull request page with files an activation while no stop
\* function is stored installs its listener and stores its stop function,
\* and an activation while one is stored removes that listener and clears
\* the stop function, however many activations came before.
C32_ActivationsAlternate ==
    [][ ActivationWithFiles =>
          IF autoscroll.stop = 0
          THEN /\ autoscroll'.stop = autoscroll'.runs
               /\ autoscroll'.stop \in autoscroll'.listeners
               /\ autoscroll'.note = "GitHub PR auto-scroll enabled! Click again to disable"
          ELSE /\ autoscroll'.stop = 0
               /\ autoscroll.stop \notin autoscroll'.listeners
               /\ autoscroll'.note = "GitHub PR auto-scroll disabled"
      ]_vars

\* C32 witness: the fourth activation on the page has disabled what the
\* third enabled; no listener is left.
C32_Witness ==
    /\ autoscroll.runs = 4
    /\ autoscroll.last = [op |-> "execute", onPR |-> TRUE]
    /\ autoscroll.files # << >>
    /\ autoscroll.stop = 0
    /\ autoscroll.listeners = {}
    /\ autoscroll.note = "GitHub PR auto-scroll disabled"

\* C38: a click listener is installed on the document exactly when
\* window.__ghAutoScrollStop is set.
C38_ListenerIffStop ==
    (autoscroll.listeners # {}) <=> (autoscroll.stop # 0)

\* The timer callback of onButtonClick has run for a file marked viewed.
MarkedViewedHandled ==
    /\ autoscroll.last.op = "click"
    /\ autoscroll.last.handled
    /\ autoscroll.last.marked

\* C39: when a file is marked viewed and no next file is found, the
\* callback shows 'All files reviewed' and ends without using the missing
\* element.
C39_NoNextFileEndsQuietly ==
    (MarkedViewedHandled /\ autoscroll.last.next = 0) =>
        /\ autoscroll.note = "All files reviewed!"
        /\ ~ autoscroll.threw

\* C40: after a file is marked viewed, 'All files reviewed' is shown
\* exactly when every file of the list is viewed, and otherwise the page
\* scrolls to a file that is not viewed.
C40_AllReviewedIffAllViewed ==
    MarkedViewedHandled =>
        IF \A i \in 1..Len(autoscroll.files) : autoscroll.files[i]
        THEN /\ autoscroll.last.next = 0
             /\ autoscroll.note = "All files reviewed!"
        ELSE /\ autoscroll.last.next # 0
             /\ autoscroll.scrolledTo = autoscroll.last.next
             /\ ~ autoscroll.files[autoscroll.scrolledTo]

====
